---- MODULE Spec2Model ----
(***************************************************************************)
(* A model of the LZXD codec of rust-lzxd: the bit reader and bit writer   *)
(* (src/src/internal/bits.rs), the block type (btype.rs), the decoder      *)
(* (decoder.rs) and the encoder (encoder.rs).                              *)
(*                                                                         *)
(* Representation.  A byte is a number in 0..255, a byte source (&[u8]) is *)
(* the sequence of the bytes not yet consumed, a byte sink (Vec<u8>) is    *)
(* the sequence of the bytes written.  A u64 bit buffer is a function      *)
(* 1..64 -> {0,1}, index 1 being bit 63 (the most significant).  A u16     *)
(* wraps modulo 65536.  u32 values stay below 2^31 (the inputs are chosen  *)
(* so), because the checker's integers are 32-bit signed.                  *)
(*                                                                         *)
(* Every operation is threaded through a record that holds the struct's    *)
(* fields and three result fields: err ("none" while the call runs on,     *)
(* else the io::Error kind returned through `?`, or "panic"), val (the     *)
(* value returned) and buf (the part of the caller's buffer the call       *)
(* stored into).  The variable debug says whether debug assertions are     *)
(* compiled in: a failing debug_assert! panics in a debug build and is     *)
(* absent from a release build, where u16 arithmetic wraps.                *)
(***************************************************************************)
EXTENDS Integers, Sequences, FiniteSets, TLC

VARIABLES
    debug,       \* cfg!(debug_assertions) of the build
    pc,          \* where the caller of the library is
    op,          \* the last operation called: <<name, argument, ...>>
    ret,         \* what it returned: [err, val, buf]
    scenario,    \* "roundtrip": the Decoder reads what the Encoder wrote;
                 \* "stream": it reads a given byte stream
    window_arg,  \* the window the caller passes to new
    size_arg,    \* the uncompressed_size the caller passes to new
    input,       \* the caller's data: what is written to the Encoder, or
                 \* what the given stream holds
    source,      \* the whole byte source handed to Decoder::new
    fed,         \* how many bytes of input the Encoder has accepted
    calls,       \* number of calls made in the current phase
    encoder,     \* the Encoder struct
    decoder,     \* the Decoder struct
    out,         \* all bytes the Decoder has returned so far
    bit_writer,  \* a BitWriter used on its own
    bit_reader,  \* a BitReader used on its own
    wlog,        \* the calls made on bit_writer, in order
    rlog,        \* the calls made on bit_reader and their results
    bt           \* a block type conversion: [bits, btype]

vars == <<debug, pc, op, ret, scenario, window_arg, size_arg, input, source,
          fed, calls, encoder, decoder, out, bit_writer, bit_reader, wlog,
          rlog, bt>>

(***************************************************************************)
(* consts.rs                                                               *)
(***************************************************************************)
WINDOW_MIN == 15
WINDOW_MAX == 21
CHUNK_SIZE == 32768

(***************************************************************************)
(* Integer helpers                                                         *)
(***************************************************************************)
Min(a, b) == IF a <= b THEN a ELSE b

RECURSIVE Pow2(_)
Pow2(k) == IF k = 0 THEN 1 ELSE 2 * Pow2(k - 1)

\* bit k (0 the least significant) of a u32 below 2^31
BitOf(v, k) == IF k > 30 THEN 0 ELSE (v \div Pow2(k)) % 2

U64Zero == [i \in 1..64 |-> 0]

\* b << n
U64Shl(b, n) == [i \in 1..64 |-> IF i + n <= 64 THEN b[i + n] ELSE 0]

\* a | b
U64Or(a, b) == [i \in 1..64 |-> IF a[i] = 1 \/ b[i] = 1 THEN 1 ELSE 0]

\* (v as u64) << s
U64OfShifted(v, s) ==
    [i \in 1..64 |-> IF 64 - i >= s THEN BitOf(v, 64 - i - s) ELSE 0]

\* b >> (64 - n), the top n bits as a number
RECURSIVE U64Top(_, _)
U64Top(b, n) == IF n = 0 THEN 0 ELSE 2 * U64Top(b, n - 1) + b[n]

\* the rest of a byte source after its first n bytes
Drop(s, n) == SubSeq(s, n + 1, Len(s))

(***************************************************************************)
(* btype.rs                                                                *)
(***************************************************************************)
Verbatim == "Verbatim"
AlignedOffset == "AlignedOffset"
Uncompressed == "Uncompressed"
BlockType == {Verbatim, AlignedOffset, Uncompressed}

\* from_bits looking at the low three bits of the code only; C5 tells it
\* from from_bits
from_bits_masked(bits) ==
    CASE bits % 8 = 1 -> [err |-> "none", val |-> Verbatim]
      [] bits % 8 = 2 -> [err |-> "none", val |-> AlignedOffset]
      [] bits % 8 = 3 -> [err |-> "none", val |-> Uncompressed]
      [] OTHER -> [err |-> "InvalidData", val |-> bits]

\* BlockType::from_bits: [err, val]
from_bits(bits) ==
    CASE bits = 1 -> [err |-> "none", val |-> Verbatim]
      [] bits = 2 -> [err |-> "none", val |-> AlignedOffset]
      [] bits = 3 -> [err |-> "none", val |-> Uncompressed]
      [] OTHER -> [err |-> "InvalidData", val |-> bits]

\* BlockType::to_bits
to_bits(btype) ==
    CASE btype = Verbatim -> 1
      [] btype = AlignedOffset -> 2
      [] btype = Uncompressed -> 3

(***************************************************************************)
(* Results                                                                 *)
(*                                                                         *)
(* Every struct is a record with a field err: "none" while its calls have  *)
(* returned Ok, else the error a call returned with `?` ("UnexpectedEof",  *)
(* "InvalidData", "InvalidInput") or "panic".  An operator applied to a    *)
(* record with an error returns it as it is: the statements after a failed *)
(* `?` do not run.  val is the value of the last call, buf the bytes of    *)
(* the caller's buffer it filled.                                          *)
(***************************************************************************)
Failed(x) == x.err # "none"

\* debug_assert!(cond) fails: a panic in the build with debug assertions
Panics(cond) == debug /\ ~cond

Panic(x) == [x EXCEPT !.err = "panic"]

(***************************************************************************)
(* bits.rs: BitReader                                                      *)
(***************************************************************************)
BitReader_new(reader) ==
    [reader |-> reader, bit_buffer |-> U64Zero, bits_in_buffer |-> 0,
     bits_mod_16 |-> 0, err |-> "none", val |-> 0, buf |-> <<>>]

\* ensure_buffer_has_at_least that takes a source at its end for a source
\* of zero bytes; C9 tells it from ensure_buffer_has_at_least
ensure_buffer_zero_filled(r, num_bits) ==
    IF Failed(r) \/ r.bits_in_buffer >= num_bits THEN r
    ELSE [r EXCEPT !.reader = Drop(r.reader, Min(2, Len(r.reader))),
                   !.bit_buffer =
                       IF Len(r.reader) < 2 THEN r.bit_buffer
                       ELSE U64Or(r.bit_buffer,
                                U64OfShifted(r.reader[1] + 256 * r.reader[2],
                                             48 - r.bits_in_buffer)),
                   !.bits_in_buffer = r.bits_in_buffer + 16]

\* one more little-endian word is pulled when the buffer is short
ensure_buffer_has_at_least(r, num_bits) ==
    IF Failed(r) THEN r
    ELSE IF Panics(num_bits <= 48) THEN Panic(r)
    ELSE IF r.bits_in_buffer >= num_bits THEN r
    ELSE IF Len(r.reader) < 2
    THEN [r EXCEPT !.reader = <<>>, !.err = "UnexpectedEof"]
    ELSE [r EXCEPT !.reader = Drop(r.reader, 2),
                   !.bit_buffer = U64Or(r.bit_buffer,
                       U64OfShifted(r.reader[1] + 256 * r.reader[2],
                                    48 - r.bits_in_buffer)),
                   !.bits_in_buffer = r.bits_in_buffer + 16]

\* read_bits after the buffer was topped up: the assertion, then the top
\* num_bits bits leave the buffer; bits_in_buffer is a u16 and wraps
take_bits(r, num_bits) ==
    IF Failed(r) THEN r
    ELSE IF Panics(r.bits_in_buffer >= num_bits) THEN Panic(r)
    ELSE [r EXCEPT !.val = U64Top(r.bit_buffer, num_bits),
                   !.bit_buffer = U64Shl(r.bit_buffer, num_bits),
                   !.bits_in_buffer =
                       (r.bits_in_buffer + 65536 - num_bits) % 65536,
                   !.bits_mod_16 = (r.bits_mod_16 + num_bits) % 16]

read_bits(r, num_bits) ==
    IF Failed(r) THEN r
    ELSE IF Panics(num_bits <= 32) THEN Panic(r)
    ELSE take_bits(ensure_buffer_has_at_least(r, num_bits), num_bits)

\* peek_bits after the buffer was topped up
top_bits(r, num_bits) ==
    IF Failed(r) THEN r
    ELSE IF Panics(r.bits_in_buffer >= num_bits) THEN Panic(r)
    ELSE [r EXCEPT !.val = U64Top(r.bit_buffer, num_bits)]

peek_bits(r, num_bits) ==
    IF Failed(r) THEN r
    ELSE IF Panics(num_bits <= 32) THEN Panic(r)
    ELSE top_bits(ensure_buffer_has_at_least(r, num_bits), num_bits)

\* debug_assert_eq!(self.bits_in_buffer & (m - 1), 0)
assert_buffer_aligned(r, m) ==
    IF Failed(r) THEN r
    ELSE IF Panics(r.bits_in_buffer % m = 0) THEN Panic(r)
    ELSE r

\* align_to_16 that discards a whole word when it is at a word boundary;
\* C7 tells it from align_to_16
BitReader_align_to_16_always(r) ==
    assert_buffer_aligned(read_bits(r, 16 - r.bits_mod_16), 16)

BitReader_align_to_16(r) ==
    assert_buffer_aligned(
        IF ~Failed(r) /\ r.bits_mod_16 # 0
        THEN read_bits(r, 16 - r.bits_mod_16)
        ELSE r,
        16)

align_to_8(r) ==
    assert_buffer_aligned(
        IF ~Failed(r) /\ r.bits_mod_16 % 8 # 0
        THEN read_bits(r, 8 - (r.bits_mod_16 % 8))
        ELSE r,
        8)

\* buf[bytes_read] = (the byte read_bits(8) returned), with bytes_read = 0
store_byte(r) == IF Failed(r) THEN r ELSE [r EXCEPT !.buf = <<r.val>>]

\* The loop of BitReader::read over the bytes resident in the bit buffer.
\* bytes_read is not advanced by the loop: every pass stores into
\* buf[bytes_read] = buf[0], and the loop ends when the buffer is empty.
\* A run of passes that cannot reach the source (the buffer holds more than
\* 64 bits, all whole bytes) is taken in one step.
RECURSIVE drain_bit_buffer(_, _)
drain_bit_buffer(r, len) ==
    IF Failed(r) \/ ~(r.bits_in_buffer # 0 /\ 0 < len) THEN r
    ELSE IF Panics(r.bits_in_buffer >= 8) THEN Panic(r)
    ELSE IF r.bits_in_buffer > 64 /\ r.bits_in_buffer % 8 = 0
    THEN drain_bit_buffer(
             [r EXCEPT !.bit_buffer =
                           U64Shl(r.bit_buffer, r.bits_in_buffer - 64),
                       !.bits_mod_16 =
                           (r.bits_mod_16 + r.bits_in_buffer - 64) % 16,
                       !.bits_in_buffer = 64,
                       !.buf = <<U64Top(U64Shl(r.bit_buffer,
                                               r.bits_in_buffer - 72), 8)>>],
             len)
    ELSE drain_bit_buffer(store_byte(read_bits(r, 8)), len)

\* the end of BitReader::read: what the loop left unfilled, buf[bytes_read..],
\* is read from the source, a &[u8] that gives all it has up to the length
read_from_source(r, len, bytes_read) ==
    IF Failed(r) THEN r
    ELSE IF bytes_read < len
    THEN LET num_bytes == Min(len - bytes_read, Len(r.reader))
         IN [r EXCEPT
               !.buf = SubSeq(r.buf, 1, bytes_read)
                           \o SubSeq(r.reader, 1, num_bytes)
                           \o SubSeq(r.buf, bytes_read + num_bytes + 1,
                                     Len(r.buf)),
               !.reader = Drop(r.reader, num_bytes),
               !.bits_mod_16 =
                   IF num_bytes % 2 # 0
                   THEN (IF r.bits_mod_16 >= 8
                         THEN r.bits_mod_16 - 8
                         ELSE r.bits_mod_16 + 8)
                   ELSE r.bits_mod_16,
               !.val = bytes_read + num_bytes]
    ELSE [r EXCEPT !.val = bytes_read]

\* impl Read for BitReader: read into a buffer of len bytes; bytes_read is
\* still 0 after the loop
BitReader_read(r, len) ==
    read_from_source(
        drain_bit_buffer(align_to_8([r EXCEPT !.buf = <<>>]), len), len, 0)

\* std::io::Read::read_exact on a BitReader: read until len bytes are
\* there; a read that returns 0 is the end of the source
RECURSIVE read_exact_from(_, _, _)
RECURSIVE read_exact_next(_, _, _)
read_exact_from(r, len, acc) ==
    IF Failed(r) THEN r
    ELSE IF len = 0 THEN [r EXCEPT !.buf = acc, !.val = Len(acc)]
    ELSE read_exact_next(BitReader_read(r, len), len, acc)

\* read_exact after one read of the len bytes it still wants
read_exact_next(r, len, acc) ==
    IF Failed(r) THEN r
    ELSE IF r.val = 0 THEN [r EXCEPT !.err = "UnexpectedEof"]
    ELSE read_exact_from(r, len - r.val, acc \o SubSeq(r.buf, 1, r.val))

read_exact(r, len) == read_exact_from(r, len, <<>>)

\* the little-endian value of the bytes read
from_le_bytes(r) ==
    IF Failed(r) THEN r
    ELSE [r EXCEPT !.val =
             IF Len(r.buf) = 2 THEN r.buf[1] + 256 * r.buf[2]
             ELSE r.buf[1] + 256 * r.buf[2] + 65536 * r.buf[3]
                      + 16777216 * r.buf[4]]

\* byteorder's read_u16::<LittleEndian> and read_u32::<LittleEndian>
read_u16(r) == from_le_bytes(read_exact(r, 2))

\* read_u32 that takes two bytes from the source; C3 tells it from read_u32
read_u32_short(r) == from_le_bytes(read_exact(r, 2))

read_u32(r) == from_le_bytes(read_exact(r, 4))

(***************************************************************************)
(* bits.rs: BitWriter                                                      *)
(***************************************************************************)
BitWriter_new(writer) ==
    [writer |-> writer, bit_buffer |-> U64Zero, bits_in_buffer |-> 0,
     extra_byte |-> FALSE, err |-> "none", val |-> 0]

\* fill_extra_byte that sends no padding byte; C2 tells it from
\* fill_extra_byte
fill_extra_byte_dropped(w) == [w EXCEPT !.extra_byte = FALSE]

fill_extra_byte(w) ==
    IF ~Failed(w) /\ w.extra_byte
    THEN [w EXCEPT !.writer = Append(w.writer, 0), !.extra_byte = FALSE]
    ELSE w

\* write_bits that sends at most one word to the sink; C24 tells it from
\* the loop of write_bits
flush_one_word(w) ==
    IF ~(w.bits_in_buffer >= 16) THEN w
    ELSE [w EXCEPT !.writer = w.writer
                       \o <<U64Top(w.bit_buffer, 16) % 256,
                            U64Top(w.bit_buffer, 16) \div 256>>,
                   !.bit_buffer = U64Shl(w.bit_buffer, 16),
                   !.bits_in_buffer = w.bits_in_buffer - 16]

\* the loop of write_bits that sends the complete words to the sink
RECURSIVE flush_words(_)
flush_words(w) ==
    IF ~(w.bits_in_buffer >= 16) THEN w
    ELSE flush_words(
             [w EXCEPT !.writer = w.writer
                           \o <<U64Top(w.bit_buffer, 16) % 256,
                                U64Top(w.bit_buffer, 16) \div 256>>,
                       !.bit_buffer = U64Shl(w.bit_buffer, 16),
                       !.bits_in_buffer = w.bits_in_buffer - 16])

\* write_bits after fill_extra_byte.  `bits >> num_bits` in the third
\* assertion is a shift of a u32: with num_bits = 32 it overflows, and the
\* build that checks assertions panics there.  The values written are
\* below 2^31.
put_bits(w, num_bits, bits) ==
    IF Failed(w) THEN w
    ELSE IF Panics(/\ num_bits <= 32
                   /\ w.bits_in_buffer < 16
                   /\ num_bits < 32
                   /\ (num_bits = 31 \/ bits \div Pow2(num_bits) = 0))
    THEN Panic(w)
    ELSE flush_words(
             [w EXCEPT !.bit_buffer = U64Or(w.bit_buffer,
                           U64OfShifted(bits,
                               64 - num_bits - w.bits_in_buffer)),
                       !.bits_in_buffer = w.bits_in_buffer + num_bits])

write_bits(w, num_bits, bits) == put_bits(fill_extra_byte(w), num_bits, bits)

\* debug_assert_eq!(self.bits_in_buffer, 0)
assert_buffer_empty(w) ==
    IF Failed(w) THEN w
    ELSE IF Panics(w.bits_in_buffer = 0) THEN Panic(w)
    ELSE w

purge_bit_buffer(w) ==
    IF Failed(w) THEN w
    ELSE IF Panics(w.bits_in_buffer < 16) THEN Panic(w)
    ELSE assert_buffer_empty(
             IF w.bits_in_buffer # 0
             THEN write_bits(w, 16 - w.bits_in_buffer, 0)
             ELSE w)

\* align_to_16 without fill_extra_byte; C29 tells it from align_to_16
BitWriter_align_to_16_unfilled(w) == purge_bit_buffer(w)

BitWriter_align_to_16(w) == fill_extra_byte(purge_bit_buffer(w))

\* write that sets extra_byte after every odd write, whatever it was; C18
\* tells it from write
write_to_sink_set(w, buf) ==
    IF Failed(w) THEN w
    ELSE [w EXCEPT !.writer = w.writer \o buf,
                   !.extra_byte = IF Len(buf) % 2 # 0
                                  THEN TRUE
                                  ELSE w.extra_byte,
                   !.val = Len(buf)]

\* write after purge_bit_buffer: the sink, a Vec<u8>, takes every byte
write_to_sink(w, buf) ==
    IF Failed(w) THEN w
    ELSE [w EXCEPT !.writer = w.writer \o buf,
                   !.extra_byte = IF Len(buf) % 2 # 0
                                  THEN ~w.extra_byte
                                  ELSE w.extra_byte,
                   !.val = Len(buf)]

\* impl Write for BitWriter
BitWriter_write(w, buf) == write_to_sink(purge_bit_buffer(w), buf)

\* std::io::Write::write_all: nothing is called for an empty buffer
write_all(w, buf) == IF Len(buf) = 0 THEN w ELSE BitWriter_write(w, buf)

\* byteorder's write_u16::<LittleEndian> and write_u32::<LittleEndian>
write_u16(w, n) == write_all(w, <<n % 256, n \div 256>>)

write_u32(w, n) ==
    write_all(w, <<n % 256, (n \div 256) % 256, (n \div 65536) % 256,
                   n \div 16777216>>)

(***************************************************************************)
(* encoder.rs                                                              *)
(***************************************************************************)
\* the Encoder after a call on self.writer that left the BitWriter as w;
\* with `?` the BitWriter's error is the Encoder's
with_writer(e, w) == [e EXCEPT !.writer = w, !.err = w.err]

\* self.writer.align_to_16()?
writer_align_to_16(e) ==
    IF Failed(e) THEN e ELSE with_writer(e, BitWriter_align_to_16(e.writer))

\* self.writer.write_bits(num_bits, bits)?
writer_write_bits(e, num_bits, bits) ==
    IF Failed(e) THEN e
    ELSE with_writer(e, write_bits(e.writer, num_bits, bits))

\* self.writer.write_u16::<LittleEndian>(n)?
writer_write_u16(e, n) ==
    IF Failed(e) THEN e ELSE with_writer(e, write_u16(e.writer, n))

\* self.writer.write_u32::<LittleEndian>(n)?
writer_write_u32(e, n) ==
    IF Failed(e) THEN e ELSE with_writer(e, write_u32(e.writer, n))

\* self.writer.write_all(buf)?
writer_write_all(e, buf) ==
    IF Failed(e) THEN e ELSE with_writer(e, write_all(e.writer, buf))

\* Encoder::new that takes the windows one below WINDOW_MIN and one above
\* WINDOW_MAX as well; C4 tells it from Encoder::new
Encoder_new_wide(writer, window, uncompressed_size) ==
    [writer |-> BitWriter_new(writer), wrote_header |-> FALSE,
     total_uncompressed_bytes_remaining |-> uncompressed_size,
     chunk_buffer |-> <<>>, chunks |-> <<>>,
     err |-> IF window < WINDOW_MIN - 1 \/ window > WINDOW_MAX + 1
             THEN "InvalidInput" ELSE "none",
     val |-> IF window < WINDOW_MIN - 1 \/ window > WINDOW_MAX + 1
             THEN window ELSE 0]

\* Encoder::new; with err = "InvalidInput" no Encoder exists and val is the
\* window named by the error; the sink has not been touched.  The field
\* chunks is history: the length of the chunk of every emit_chunk call.
Encoder_new(writer, window, uncompressed_size) ==
    [writer |-> BitWriter_new(writer), wrote_header |-> FALSE,
     total_uncompressed_bytes_remaining |-> uncompressed_size,
     chunk_buffer |-> <<>>, chunks |-> <<>>,
     err |-> IF window < WINDOW_MIN \/ window > WINDOW_MAX
             THEN "InvalidInput" ELSE "none",
     val |-> IF window < WINDOW_MIN \/ window > WINDOW_MAX
             THEN window ELSE 0]

\* the flag bit written without wrote_header being set; C20 tells it from
\* `self.wrote_header = true`
set_wrote_header_not(e) == e

\* self.wrote_header = true
set_wrote_header(e) ==
    IF Failed(e) THEN e ELSE [e EXCEPT !.wrote_header = TRUE]

\* the flag bit written as a word of its own; C19 tells it from the flag
\* bit of emit_chunk
write_header_aligned(e) ==
    IF ~Failed(e) /\ ~e.wrote_header
    THEN set_wrote_header(writer_align_to_16(writer_write_bits(e, 1, 0)))
    ELSE e

\* the flag bit, written by the first emit_chunk only
write_header(e) ==
    IF ~Failed(e) /\ ~e.wrote_header
    THEN set_wrote_header(writer_write_bits(e, 1, 0))
    ELSE e

\* self.chunk_buffer.clear(), and the call's entry in chunks
clear_chunk_buffer(e) ==
    IF Failed(e) THEN e
    ELSE [e EXCEPT !.chunk_buffer = <<>>,
                   !.chunks = Append(@, Len(e.chunk_buffer))]

\* The chunk buffer never holds more than the CHUNK_SIZE bytes it was made
\* for, so its capacity stays what Vec::with_capacity gave and the last
\* assertion is not modelled.  chunk_compressed_size is written `as u16`.
emit_chunk(e) ==
    IF Failed(e) THEN e
    ELSE IF Panics(/\ Len(e.chunk_buffer) # 0
                   /\ Len(e.chunk_buffer) <= CHUNK_SIZE
                   /\ \/ Len(e.chunk_buffer) = CHUNK_SIZE
                      \/ e.total_uncompressed_bytes_remaining = 0)
    THEN Panic(e)
    ELSE
    clear_chunk_buffer(
    writer_align_to_16(
    writer_write_all(
    writer_write_u32(
    writer_write_u32(
    writer_write_u32(
    writer_align_to_16(
    writer_write_bits(
    writer_write_bits(
    writer_write_bits(
    write_header(
    writer_write_u16(
    writer_align_to_16(e),
        (16 + Len(e.chunk_buffer) + (Len(e.chunk_buffer) % 2)) % 65536)),
        3, to_bits(Uncompressed)),
        24, Len(e.chunk_buffer)),
        1, 0)),
        1),
        1),
        1),
        e.chunk_buffer)))

\* `if self.chunk_buffer.len() == CHUNK_SIZE { self.emit_chunk()? }`, after
\* the assertion in front of it
emit_full_chunk(e) ==
    IF Failed(e) THEN e
    ELSE IF Panics(Len(e.chunk_buffer) <= CHUNK_SIZE) THEN Panic(e)
    ELSE IF Len(e.chunk_buffer) = CHUNK_SIZE THEN emit_chunk(e)
    ELSE e

\* write without the emit after the loop; C27 tells it from
\* `if self.total_uncompressed_bytes_remaining == 0 && !self.chunk_buffer
\* .is_empty() { self.emit_chunk()? }`
emit_last_chunk_never(e) == e

\* the emit after the loop
emit_last_chunk(e) ==
    IF /\ ~Failed(e)
       /\ e.total_uncompressed_bytes_remaining = 0
       /\ Len(e.chunk_buffer) # 0
    THEN emit_chunk(e)
    ELSE e

\* Ok(bytes_written)
returns(x, n) == IF Failed(x) THEN x ELSE [x EXCEPT !.val = n]

\* the loop of Encoder::write and what follows it
RECURSIVE Encoder_write_loop(_, _, _)
Encoder_write_loop(e, buf, bytes_written) ==
    IF Failed(e) THEN e
    ELSE IF e.total_uncompressed_bytes_remaining > 0
            /\ bytes_written < Len(buf)
    THEN
        IF Panics(Len(e.chunk_buffer) < CHUNK_SIZE) THEN Panic(e)
        ELSE LET num_bytes ==
                     Min(Min(e.total_uncompressed_bytes_remaining,
                             CHUNK_SIZE - Len(e.chunk_buffer)),
                         Len(buf) - bytes_written)
             IN Encoder_write_loop(
                    emit_full_chunk(
                        [e EXCEPT
                           !.chunk_buffer =
                               @ \o SubSeq(buf, bytes_written + 1,
                                           bytes_written + num_bytes),
                           !.total_uncompressed_bytes_remaining =
                               @ - num_bytes]),
                    buf, bytes_written + num_bytes)
    ELSE returns(emit_last_chunk(e), bytes_written)

\* write that lets the chunk buffer grow past CHUNK_SIZE and emits once, at
\* the end; C8 tells it from write
Encoder_write_unsplit(e, buf) ==
    LET num_bytes == Min(e.total_uncompressed_bytes_remaining, Len(buf))
    IN returns(
           emit_last_chunk(
               [e EXCEPT
                  !.chunk_buffer = @ \o SubSeq(buf, 1, num_bytes),
                  !.total_uncompressed_bytes_remaining = @ - num_bytes]),
           num_bytes)

\* write that reports the whole buffer as written; C11 tells it from write
Encoder_write_all_counted(e, buf) ==
    returns(Encoder_write_loop(e, buf, 0), Len(buf))

\* write that emits what the chunk buffer holds at the end of every call;
\* C28 tells it from write
Encoder_write_flushing(e, buf) ==
    LET w == Encoder_write_loop(e, buf, 0)
    IN IF ~Failed(w) /\ Len(w.chunk_buffer) # 0
       THEN returns(emit_chunk(w), w.val)
       ELSE w

\* impl Write for Encoder
Encoder_write(e, buf) == Encoder_write_loop(e, buf, 0)

(***************************************************************************)
(* decoder.rs                                                              *)
(***************************************************************************)
\* the Decoder after a call on self.reader that left the BitReader as r;
\* with `?` the BitReader's error is the Decoder's
with_reader(d, r) == [d EXCEPT !.reader = r, !.err = r.err]

\* self.reader.read_bits(num_bits)?
reader_read_bits(d, num_bits) ==
    IF Failed(d) THEN d ELSE with_reader(d, read_bits(d.reader, num_bits))

\* self.reader.align_to_16()?
reader_align_to_16(d) ==
    IF Failed(d) THEN d ELSE with_reader(d, BitReader_align_to_16(d.reader))

\* self.reader.read_u16::<LittleEndian>()?
reader_read_u16(d) ==
    IF Failed(d) THEN d ELSE with_reader(d, read_u16(d.reader))

\* self.reader.read_u32::<LittleEndian>()?
reader_read_u32(d) ==
    IF Failed(d) THEN d ELSE with_reader(d, read_u32(d.reader))

\* self.reader.read_exact(&mut buf[bytes_read..end])?
reader_read_exact(d, len) ==
    IF Failed(d) THEN d ELSE with_reader(d, read_exact(d.reader, len))

\* vec![0u8; window_size], kept as its length and the byte that fills it
\* (no code stores into the window)
NewWindow(window_size) == [len |-> window_size, byte |-> 0]

\* the struct Decoder::new builds once the first chunk size is read; val
\* counts the bytes a read has copied so far (bytes_read), buf holds them.
\* The field copies is history: bytes_to_read of every pass of the loop of
\* read that has reached its assertion.
Decoder_struct(reader, window, uncompressed_size, chunk_compressed_size) ==
    [reader |-> BitReader_new(reader),
     total_uncompressed_bytes_remaining |-> uncompressed_size,
     chunk_compressed_bytes_remaining |-> chunk_compressed_size,
     chunk_uncompressed_bytes_remaining |->
         Min(uncompressed_size, CHUNK_SIZE),
     header_filesize |-> 0,
     block_type |-> Verbatim,
     block_uncompressed_bytes_remaining |-> 0,
     recent |-> <<0, 0, 0>>,
     window |-> NewWindow(Pow2(Min(window, WINDOW_MAX))),
     copies |-> <<>>,
     err |-> "none", val |-> 0, buf |-> <<>>]

\* decoder.header_filesize = (the 32 bits read)
set_header_filesize(d) ==
    IF Failed(d) THEN d ELSE [d EXCEPT !.header_filesize = d.reader.val]

\* `if (the flag bit read) != 0 { header_filesize = read_bits(32)? }`
read_header_filesize(d) ==
    IF ~Failed(d) /\ d.reader.val # 0
    THEN set_header_filesize(reader_read_bits(d, 32))
    ELSE d

\* Decoder::new; with an err no Decoder exists: the record then only shows
\* what is left of the source (and, for "InvalidInput", val is the window
\* named by the error).  The chunk size is read from the source itself.
Decoder_new(reader, window, uncompressed_size) ==
    IF window < WINDOW_MIN \/ window > WINDOW_MAX
    THEN [Decoder_struct(reader, window, uncompressed_size, 0)
              EXCEPT !.err = "InvalidInput", !.val = window]
    ELSE IF Len(reader) < 2
    THEN [Decoder_struct(<<>>, window, uncompressed_size, 0)
              EXCEPT !.err = "UnexpectedEof"]
    ELSE read_header_filesize(
             reader_read_bits(
                 Decoder_struct(Drop(reader, 2), window, uncompressed_size,
                                reader[1] + 256 * reader[2]),
                 1))

\* self.recent.i = (the u32 read)
set_recent(d, i) ==
    IF Failed(d) THEN d ELSE [d EXCEPT !.recent[i] = d.reader.val]

\* self.recent.i = self.reader.read_u32::<LittleEndian>()?
read_recent(d, i) == set_recent(reader_read_u32(d), i)

\* `if self.block_type == BlockType::Uncompressed { align_to_16()? }`
align_after_uncompressed(d) ==
    IF ~Failed(d) /\ d.block_type = Uncompressed
    THEN reader_align_to_16(d)
    ELSE d

\* self.block_type = BlockType::from_bits(the 3 bits read)?
set_block_type(d) ==
    IF Failed(d) THEN d
    ELSE IF Failed(from_bits(d.reader.val))
    THEN [d EXCEPT !.err = from_bits(d.reader.val).err,
                   !.val = d.reader.val]
    ELSE [d EXCEPT !.block_type = from_bits(d.reader.val).val]

\* self.block_uncompressed_bytes_remaining = (the 24 bits read)
set_block_size(d) ==
    IF Failed(d) THEN d
    ELSE [d EXCEPT !.block_uncompressed_bytes_remaining = d.reader.val]

\* `match self.block_type` of the header: for an Uncompressed block the
\* filler bit, the alignment and the three recent offsets
read_block_kind_header(d) ==
    IF Failed(d) THEN d
    ELSE IF d.block_type # Uncompressed THEN Panic(d)   \* unimplemented!()
    ELSE read_recent(
             read_recent(
                 read_recent(reader_align_to_16(reader_read_bits(d, 1)), 1),
                 2),
             3)

\* one pass of the loop `while self.block_uncompressed_bytes_remaining == 0`
read_block_header(d) ==
    read_block_kind_header(
        set_block_size(
            reader_read_bits(
                set_block_type(
                    reader_read_bits(align_after_uncompressed(d), 3)),
                24)))

\* the block header loop as an `if`: one header is read when the block is
\* at its end; C25 tells it from the loop
read_block_headers_once(d) ==
    IF Failed(d) \/ d.block_uncompressed_bytes_remaining # 0 THEN d
    ELSE read_block_header(d)

RECURSIVE read_block_headers(_)
read_block_headers(d) ==
    IF Failed(d) \/ d.block_uncompressed_bytes_remaining # 0 THEN d
    ELSE read_block_headers(read_block_header(d))

\* the chunk size read and the chunk's uncompressed size set
set_chunk_sizes(d) ==
    IF Failed(d) THEN d
    ELSE [d EXCEPT !.chunk_compressed_bytes_remaining = d.reader.val,
                   !.chunk_uncompressed_bytes_remaining =
                       Min(d.total_uncompressed_bytes_remaining,
                           CHUNK_SIZE)]

\* the start of a chunk: `if self.chunk_uncompressed_bytes_remaining == 0`
read_chunk_header(d) ==
    IF ~Failed(d) /\ d.chunk_uncompressed_bytes_remaining = 0
    THEN set_chunk_sizes(reader_read_u16(reader_align_to_16(d)))
    ELSE d

\* the counters after the copy, the chunk's left as it was; C26 tells it
\* from the three subtractions
copied_chunk_kept(d, bytes_to_read) ==
    IF Failed(d) THEN d
    ELSE [d EXCEPT
            !.buf = @ \o d.reader.buf,
            !.val = @ + bytes_to_read,
            !.block_uncompressed_bytes_remaining = @ - bytes_to_read,
            !.total_uncompressed_bytes_remaining = @ - bytes_to_read]

\* after read_exact: the bytes are in buf[bytes_read..end] and the counters
\* go down by bytes_to_read
copied(d, bytes_to_read) ==
    IF Failed(d) THEN d
    ELSE [d EXCEPT
            !.buf = @ \o d.reader.buf,
            !.val = @ + bytes_to_read,
            !.block_uncompressed_bytes_remaining = @ - bytes_to_read,
            !.chunk_uncompressed_bytes_remaining = @ - bytes_to_read,
            !.total_uncompressed_bytes_remaining = @ - bytes_to_read]

\* bytes_to_read, its assertion and the copy of the raw bytes
copy_uncompressed(d, len) ==
    IF Failed(d) THEN d
    ELSE LET bytes_to_read ==
                 Min(Min(d.block_uncompressed_bytes_remaining,
                         d.chunk_uncompressed_bytes_remaining),
                     len - d.val)
             passed == [d EXCEPT !.copies = Append(@, bytes_to_read)]
         IN IF Panics(bytes_to_read > 0) THEN Panic(passed)
            ELSE IF d.block_type # Uncompressed
            THEN Panic(passed)                         \* unimplemented!()
            ELSE copied(reader_read_exact(passed, bytes_to_read),
                        bytes_to_read)

\* the loop of Decoder::read; d.val is bytes_read
RECURSIVE Decoder_read_loop(_, _)
Decoder_read_loop(d, len) ==
    IF Failed(d) THEN d
    ELSE IF d.total_uncompressed_bytes_remaining > 0 /\ d.val < len
    THEN Decoder_read_loop(
             copy_uncompressed(read_block_headers(read_chunk_header(d)),
                               len),
             len)
    ELSE d

\* read that returns after the first copy, at the end of a block or of a
\* chunk; C13 tells it from read
Decoder_read_one_copy(d, len) ==
    IF d.total_uncompressed_bytes_remaining > 0 /\ 0 < len
    THEN copy_uncompressed(
             read_block_headers(
                 read_chunk_header([d EXCEPT !.buf = <<>>, !.val = 0])),
             len)
    ELSE [d EXCEPT !.buf = <<>>, !.val = 0]

\* read that, at the end of the data, goes on to the next word boundary of
\* the source; C10 tells it from read
Decoder_read_aligning(d, len) ==
    IF d.total_uncompressed_bytes_remaining = 0 /\ len > 0
    THEN reader_align_to_16([d EXCEPT !.buf = <<>>, !.val = 0])
    ELSE Decoder_read_loop([d EXCEPT !.buf = <<>>, !.val = 0], len)

\* impl Read for Decoder: read into a buffer of len bytes
Decoder_read(d, len) ==
    Decoder_read_loop([d EXCEPT !.buf = <<>>, !.val = 0], len)

(***************************************************************************)
(* Bounds and inputs                                                       *)
(***************************************************************************)
MaxWrites == 3      \* Encoder::write calls per run
MaxReads == 3       \* Decoder::read calls per run
Slack == 1          \* bytes the caller holds beyond the declared size

Windows == {14, 15, 21, 22, 12345}
SmallSizes == {0, 1, 2, 3}
BigSizes == {CHUNK_SIZE - 1, CHUNK_SIZE, CHUNK_SIZE + 1, 2 * CHUNK_SIZE}
EncoderConfigs == (Windows \X SmallSizes) \cup ({WINDOW_MIN} \X BigSizes)
\* buffer lengths of the calls: short ones for the short streams, and
\* lengths around a chunk for the streams of a chunk and more
WriteLens(n) ==
    IF n \in SmallSizes THEN {0, 1, 3} ELSE {1, CHUNK_SIZE - 1, CHUNK_SIZE}
ReadLens(n) ==
    IF n < CHUNK_SIZE - 1 THEN {0, 1, 2, 10}
    ELSE {1, CHUNK_SIZE, 2 * CHUNK_SIZE + 1}

\* "abcdefg...": n bytes with period 29, which does not divide CHUNK_SIZE
RECURSIVE Repeat(_, _)
Repeat(s, n) == IF Len(s) >= n THEN SubSeq(s, 1, n) ELSE Repeat(s \o s, n)

Letters(n) == Repeat([i \in 1..29 |-> 96 + i], n)

\* n bytes 254, 253, ...
HighBytes(n) == [i \in 1..n |-> 255 - i]

InputsFor(n) ==
    {Letters(n + Slack)}
        \cup (IF n \in SmallSizes THEN {HighBytes(n + Slack)} ELSE {})

\* Byte streams given to the Decoder, written out field by field
LE16(n) == <<n % 256, n \div 256>>

LE32(n) == <<n % 256, (n \div 256) % 256, (n \div 65536) % 256,
             n \div 16777216>>

\* flag 0, kind (3 bits), length (24 bits), filler 0, 3 pad bits
FirstBlockHeader(kind, len) ==
    LE16(kind * 4096 + len \div 4096) \o LE16((len % 4096) * 16)

\* flag 1, filesize (32 bits), kind, length, filler 0, 3 pad bits
FilesizeBlockHeader(filesize, kind, len) ==
    LE16(32768 + filesize \div 131072) \o LE16((filesize \div 2) % 65536)
        \o LE16((filesize % 2) * 32768 + kind * 4096 + len \div 4096)
        \o LE16((len % 4096) * 16)

\* kind, length, filler 0, 4 pad bits: a block that is not the first
NextBlockHeader(kind, len) ==
    LE16(kind * 8192 + len \div 2048) \o LE16((len % 2048) * 32)

\* the three recent offsets, the raw bytes and the byte that pads them
BlockBody(recent, body) ==
    LE32(recent[1]) \o LE32(recent[2]) \o LE32(recent[3]) \o body
        \o (IF Len(body) % 2 = 1 THEN <<0>> ELSE <<>>)

OneBlock(chunk_size, recent, body) ==
    LE16(chunk_size) \o FirstBlockHeader(3, Len(body))
        \o BlockBody(recent, body)

TwoBlocks(body1, body2) ==
    LE16(40) \o FirstBlockHeader(3, Len(body1))
        \o BlockBody(<<1, 1, 1>>, body1)
        \o NextBlockHeader(3, Len(body2)) \o BlockBody(<<2, 3, 4>>, body2)

\* the stream of the tests: 14 00 00 30 30 00 01 00 00 00 01 00 00 00
\* 01 00 00 00 61 62 63 00
TestVector == OneBlock(20, <<1, 1, 1>>, <<97, 98, 99>>)

\* [bytes: the stream, size: the uncompressed_size given, data: the raw
\*  bytes the stream's blocks hold]
OneBlockStreams ==
    {[bytes |-> OneBlock(c, r, Letters(l)), size |-> l, data |-> Letters(l)] :
        c \in {0, 20}, r \in {<<1, 1, 1>>, <<5, 70000, 3>>}, l \in 0..4}
        \cup {[bytes |-> OneBlock(20, <<1, 1, 1>>, HighBytes(l)), size |-> l,
               data |-> HighBytes(l)] : l \in 1..3}

\* a declared size below or above what the stream holds
MissizedStreams ==
    {[bytes |-> OneBlock(20, <<1, 1, 1>>, Letters(l)), size |-> n,
      data |-> Letters(l)] : l \in 2..3, n \in {0, 1, 2, 4}}

\* the test stream cut after k bytes
TruncatedStreams ==
    {[bytes |-> SubSeq(TestVector, 1, k), size |-> 3, data |-> <<97, 98, 99>>] :
        k \in 0..(Len(TestVector) - 1)}

TwoBlockStreams ==
    {[bytes |-> TwoBlocks(Letters(l1), SubSeq(Letters(l1 + l2), l1 + 1, l1 + l2)),
      size |-> l1 + l2, data |-> Letters(l1 + l2)] :
        l1 \in 0..3, l2 \in 1..2}

\* the test stream with the 3-bit kind code k in its block header
KindStream(k) ==
    LE16(20) \o FirstBlockHeader(k, 3)
        \o BlockBody(<<1, 1, 1>>, <<97, 98, 99>>)

\* every 3-bit kind code in front of the body of the test stream
KindStreams ==
    {[bytes |-> KindStream(k), size |-> 3, data |-> <<97, 98, 99>>] :
        k \in 0..7}

\* the test stream with the flag bit 1 and the 32-bit file size f
FilesizeStream(f) ==
    LE16(24) \o FilesizeBlockHeader(f, 3, 3)
        \o BlockBody(<<1, 1, 1>>, <<97, 98, 99>>)

Filesizes == {0, 3, 74565}

FilesizeStreams ==
    {[bytes |-> FilesizeStream(f), size |-> 3, data |-> <<97, 98, 99>>] :
        f \in Filesizes}

Streams ==
    OneBlockStreams \cup MissizedStreams \cup TruncatedStreams
        \cup TwoBlockStreams \cup KindStreams \cup FilesizeStreams

(***************************************************************************)
(* The caller: one action per call                                         *)
(***************************************************************************)
NoRet == [err |-> "none", val |-> 0, buf |-> <<>>]
NoEncoder == [Encoder_new(<<>>, WINDOW_MIN, 0) EXCEPT !.err = "absent"]
NoDecoder == [Decoder_struct(<<>>, WINDOW_MIN, 0, 0) EXCEPT !.err = "absent"]
NoBitWriter == [BitWriter_new(<<>>) EXCEPT !.err = "absent"]
NoBitReader == [BitReader_new(<<>>) EXCEPT !.err = "absent"]

\* what stays of a struct between two calls: its fields, not the results
EncoderState(e) == [e EXCEPT !.val = 0, !.writer.val = 0]

DecoderState(d) ==
    [d EXCEPT !.val = 0, !.buf = <<>>, !.reader.val = 0, !.reader.buf = <<>>]

WriterState(w) == [w EXCEPT !.val = 0]

ReaderState(r) == [r EXCEPT !.val = 0, !.buf = <<>>]

\* a caller stops using an object whose call failed
After(x) == IF x.err = "none" THEN pc ELSE "failed"

Result(x) == [err |-> x.err, val |-> x.val, buf |-> <<>>]

InitAll(start, codes) ==
    /\ debug \in BOOLEAN
    /\ pc = start
    /\ op = <<"none">>
    /\ ret = NoRet
    /\ scenario = "none"
    /\ window_arg = 0
    /\ size_arg = 0
    /\ input = <<>>
    /\ source = <<>>
    /\ fed = 0
    /\ calls = 0
    /\ encoder = NoEncoder
    /\ decoder = NoDecoder
    /\ out = <<>>
    /\ bit_writer = NoBitWriter
    /\ bit_reader = NoBitReader
    /\ wlog = <<>>
    /\ rlog = <<>>
    /\ bt \in {[bits |-> c, btype |-> "none"] : c \in codes}

Init == InitAll("start", {0})

\* Encoder::new(&mut output, window, uncompressed_size) on an empty Vec
EncoderNew ==
    /\ pc = "start"
    /\ \E c \in EncoderConfigs : \E data \in InputsFor(c[2]) :
         LET e == Encoder_new(<<>>, c[1], c[2])
         IN /\ encoder' = EncoderState(e)
            /\ window_arg' = c[1]
            /\ size_arg' = c[2]
            /\ input' = data
            /\ op' = <<"Encoder::new", c[1], c[2]>>
            /\ ret' = Result(e)
            /\ pc' = IF e.err = "none" THEN "encoding" ELSE "failed"
    /\ scenario' = "roundtrip"
    /\ UNCHANGED <<debug, source, fed, calls, decoder, out, bit_writer,
                   bit_reader, wlog, rlog, bt>>

\* encoder.write(&input[fed .. fed + len])
EncoderWrite ==
    /\ pc = "encoding"
    /\ calls < MaxWrites
    /\ \E len \in WriteLens(size_arg) \cup {Len(input) - fed} :
         /\ fed + len <= Len(input)
         /\ LET e == Encoder_write(encoder, SubSeq(input, fed + 1, fed + len))
            IN /\ encoder' = EncoderState(e)
               /\ fed' = IF e.err = "none" THEN fed + e.val ELSE fed
               /\ op' = <<"Encoder::write", len>>
               /\ ret' = Result(e)
               /\ pc' = After(e)
    /\ calls' = calls + 1
    /\ UNCHANGED <<debug, scenario, window_arg, size_arg, input, source,
                   decoder, out, bit_writer, bit_reader, wlog, rlog, bt>>

NewDecoder(bytes, w, n) ==
    LET d == Decoder_new(bytes, w, n)
    IN /\ decoder' = DecoderState(d)
       /\ source' = bytes
       /\ op' = <<"Decoder::new", w, n>>
       /\ ret' = Result(d)
       /\ pc' = IF d.err = "none" THEN "decoding" ELSE "failed"
       /\ calls' = 0
       /\ out' = <<>>

\* Decoder::new over what the Encoder wrote, once all the declared bytes
\* are written, with the Encoder's window and uncompressed_size
DecoderNewRoundTrip ==
    /\ pc = "encoding"
    /\ encoder.total_uncompressed_bytes_remaining = 0
    /\ NewDecoder(encoder.writer.writer, window_arg, size_arg)
    /\ UNCHANGED <<debug, scenario, window_arg, size_arg, input, fed, encoder,
                   bit_writer, bit_reader, wlog, rlog, bt>>

\* Decoder::new over a given stream
DecoderNew ==
    /\ pc = "start"
    /\ \E c \in Streams : \E w \in Windows :
         /\ NewDecoder(c.bytes, w, c.size)
         /\ window_arg' = w
         /\ size_arg' = c.size
         /\ input' = c.data
    /\ scenario' = "stream"
    /\ UNCHANGED <<debug, fed, encoder, bit_writer, bit_reader, wlog, rlog,
                   bt>>

\* decoder.read(&mut buffer) with a buffer of len bytes
DecoderRead ==
    /\ pc = "decoding"
    /\ calls < MaxReads
    /\ \E len \in ReadLens(size_arg) :
         LET d == Decoder_read(decoder, len)
         IN /\ decoder' = DecoderState(d)
            /\ op' = <<"Decoder::read", len>>
            /\ ret' = [err |-> d.err, val |-> d.val,
                       buf |-> IF d.err = "none" THEN d.buf ELSE <<>>]
            /\ out' = IF d.err = "none" THEN out \o d.buf ELSE out
            /\ pc' = After(d)
    /\ calls' = calls + 1
    /\ UNCHANGED <<debug, scenario, window_arg, size_arg, input, source, fed,
                   encoder, bit_writer, bit_reader, wlog, rlog, bt>>

Next ==
    \/ EncoderNew
    \/ EncoderWrite
    \/ DecoderNewRoundTrip
    \/ DecoderNew
    \/ DecoderRead

Spec == Init /\ [][Next]_vars

(***************************************************************************)
(* BitWriter and BitReader used on their own                               *)
(***************************************************************************)
MaxWriterOps == 3   \* calls on a BitWriter per run
MaxReaderOps == 3   \* calls on a BitReader over a given source per run

\* (width, value) pairs for write_bits
Fields == {<<1, 1>>, <<3, 5>>, <<16, 43981>>, <<17, 1>>, <<24, 3>>,
           <<32, 1>>}
RawBufs == {<<7>>, <<8, 9>>}
ReadWidths == {1, 3, 8, 16, 17}
PeekWidths == {3, 16, 17}
RawLens == {1, 2}
ReaderSources ==
    {<<>>, <<1>>, SubSeq(TestVector, 1, 6),
     <<205, 171, 52, 18, 120, 86, 154>>, <<1, 0, 0, 128>>}

WriterOnly == bit_reader' = bit_reader /\ rlog' = rlog

ReaderOnly == bit_writer' = bit_writer /\ wlog' = wlog

BitsFrame ==
    UNCHANGED <<debug, scenario, window_arg, size_arg, input, source, fed,
                encoder, decoder, out, bt>>

InitBits == InitAll("bits", {0})

\* BitWriter::new(Vec::new())
BitWriterNew ==
    /\ pc = "bits"
    /\ bit_writer' = BitWriter_new(<<>>)
    /\ op' = <<"BitWriter::new">>
    /\ ret' = NoRet
    /\ pc' = "bw"
    /\ calls' = 0
    /\ WriterOnly /\ wlog' = wlog
    /\ BitsFrame

WriterCall(w, name, entry) ==
    /\ bit_writer' = WriterState(w)
    /\ op' = name
    /\ ret' = Result(w)
    /\ wlog' = Append(wlog, entry)
    /\ pc' = After(w)
    /\ calls' = calls + 1
    /\ WriterOnly
    /\ BitsFrame

\* writer.write_bits(width, value)
WriterWriteBits ==
    /\ pc = "bw"
    /\ calls < MaxWriterOps
    /\ \E f \in Fields :
         WriterCall(write_bits(bit_writer, f[1], f[2]),
                    <<"BitWriter::write_bits", f[1], f[2]>>,
                    <<"bits", f[1], f[2]>>)

\* writer.write(buf)
WriterWrite ==
    /\ pc = "bw"
    /\ calls < MaxWriterOps
    /\ \E buf \in RawBufs :
         WriterCall(BitWriter_write(bit_writer, buf),
                    <<"BitWriter::write", buf>>, <<"raw", buf>>)

\* writer.align_to_16()
WriterAlign ==
    /\ pc = "bw"
    /\ calls < MaxWriterOps + 1
    /\ WriterCall(BitWriter_align_to_16(bit_writer),
                  <<"BitWriter::align_to_16">>, <<"align">>)

\* the writer's calls were write_bits only, then one align_to_16
BitsThenAlign ==
    /\ Len(wlog) >= 1
    /\ wlog[Len(wlog)] = <<"align">>
    /\ \A i \in 1..(Len(wlog) - 1) : wlog[i][1] = "bits"

\* BitReader::new over the bytes the writer produced
BitReaderReopen ==
    /\ pc = "bw"
    /\ BitsThenAlign
    /\ bit_reader' = BitReader_new(bit_writer.writer)
    /\ rlog' = <<>>
    /\ op' = <<"BitReader::new">>
    /\ ret' = NoRet
    /\ pc' = "replay"
    /\ calls' = 0
    /\ ReaderOnly
    /\ BitsFrame

ReaderCall(r, name, entry) ==
    /\ bit_reader' = ReaderState(r)
    /\ op' = name
    /\ ret' = [err |-> r.err, val |-> r.val,
               buf |-> IF r.err = "none" THEN r.buf ELSE <<>>]
    /\ rlog' = Append(rlog, entry \o <<r.err, r.val>>)
    /\ pc' = After(r)
    /\ calls' = calls + 1
    /\ ReaderOnly
    /\ BitsFrame

\* reader.read_bits(width) with the width of the next pair written
ReaderReplay ==
    /\ pc = "replay"
    /\ Len(rlog) < Len(wlog) - 1
    /\ LET width == wlog[Len(rlog) + 1][2]
       IN ReaderCall(read_bits(bit_reader, width),
                     <<"BitReader::read_bits", width>>, <<"bits", width>>)

\* BitReader::new over a given source
BitReaderNew ==
    /\ pc = "bits"
    /\ \E bytes \in ReaderSources :
         /\ bit_reader' = BitReader_new(bytes)
         /\ source' = bytes
    /\ rlog' = <<>>
    /\ op' = <<"BitReader::new">>
    /\ ret' = NoRet
    /\ pc' = "br"
    /\ calls' = 0
    /\ ReaderOnly
    /\ UNCHANGED <<debug, scenario, window_arg, size_arg, input, fed,
                   encoder, decoder, out, bt>>

\* reader.read_bits(n)
ReaderReadBits ==
    /\ pc = "br"
    /\ calls < MaxReaderOps
    /\ \E n \in ReadWidths :
         ReaderCall(read_bits(bit_reader, n),
                    <<"BitReader::read_bits", n>>, <<"bits", n>>)

\* reader.peek_bits(n)
ReaderPeekBits ==
    /\ pc = "br"
    /\ calls < MaxReaderOps
    /\ \E n \in PeekWidths :
         ReaderCall(peek_bits(bit_reader, n),
                    <<"BitReader::peek_bits", n>>, <<"peek", n>>)

\* reader.align_to_16()
ReaderAlign ==
    /\ pc = "br"
    /\ calls < MaxReaderOps + 1
    /\ ReaderCall(BitReader_align_to_16(bit_reader),
                  <<"BitReader::align_to_16">>, <<"align", 0>>)

\* reader.read(&mut buffer) with a buffer of len bytes
ReaderRead ==
    /\ pc = "br"
    /\ calls < MaxReaderOps
    /\ \E len \in RawLens :
         ReaderCall(BitReader_read(bit_reader, len),
                    <<"BitReader::read", len>>, <<"read", len>>)

NextBits ==
    \/ BitWriterNew
    \/ WriterWriteBits
    \/ WriterWrite
    \/ WriterAlign
    \/ BitReaderReopen
    \/ ReaderReplay
    \/ BitReaderNew
    \/ ReaderReadBits
    \/ ReaderPeekBits
    \/ ReaderAlign
    \/ ReaderRead

SpecBits == InitBits /\ [][NextBits]_vars

(***************************************************************************)
(* BlockType conversions on their own                                      *)
(***************************************************************************)
MaxCode == 64       \* the codes given to from_bits are 0..MaxCode, 65535

Codes == 0..MaxCode \cup {65535}

InitBT == InitAll("btype", Codes)

BTFrame ==
    UNCHANGED <<debug, scenario, window_arg, size_arg, input, source, fed,
                calls, encoder, decoder, out, bit_writer, bit_reader, wlog,
                rlog>>

\* k.to_bits() for a block type k
ToBits ==
    /\ pc = "btype"
    /\ \E k \in BlockType :
         /\ bt' = [bits |-> to_bits(k), btype |-> k]
         /\ op' = <<"BlockType::to_bits", k>>
         /\ ret' = [err |-> "none", val |-> to_bits(k), buf |-> <<>>]
    /\ pc' = "converted"
    /\ BTFrame

\* BlockType::from_bits(bits), of a given code or of what to_bits returned
FromBits ==
    /\ pc \in {"btype", "converted"}
    /\ op' = <<"BlockType::from_bits", bt.bits>>
    /\ ret' = Result(from_bits(bt.bits)) 
    /\ pc' = "done"
    /\ bt' = bt
    /\ BTFrame

NextBT ==
    \/ ToBits
    \/ FromBits

SpecBT == InitBT /\ [][NextBT]_vars

(***************************************************************************)
(* Properties                                                              *)
(***************************************************************************)
IsPrefix(s, t) == Len(s) <= Len(t) /\ s = SubSeq(t, 1, Len(s))

Max(a, b) == IF a >= b THEN a ELSE b

ValidWindow(w) == 15 <= w /\ w <= 21

\* 14 00 00 30 30 00 01 00 00 00 01 00 00 00 01 00 00 00 61 62 63 00
TinyStream ==
    <<20, 0, 0, 48, 48, 0, 1, 0, 0, 0, 1, 0, 0, 0, 1, 0, 0, 0, 97, 98, 99, 0>>

\* the bytes the caller declared: the first size_arg bytes of its data
Declared == SubSeq(input, 1, size_arg)

\* C1: round trip.  With window 15 and uncompressed_size N, writing the N
\* bytes to an Encoder and reading them back through a Decoder over what
\* the Encoder emitted succeeds at every step; what has been read is always
\* the beginning of the original bytes, and when a read into a non-empty
\* buffer returns 0 it is all of them.
C1_RoundTrip ==
    (scenario = "roundtrip" /\ window_arg = 15) =>
        /\ ret.err = "none"
        /\ pc = "decoding" => IsPrefix(out, Declared)
        /\ (pc = "decoding" /\ op[1] = "Decoder::read" /\ op[2] > 0
                /\ ret.val = 0) => out = Declared

\* C1 for N >= 1: the same round trip with at least one byte declared
C1_RoundTripNonEmpty ==
    (scenario = "roundtrip" /\ window_arg = 15 /\ size_arg >= 1) =>
        /\ ret.err = "none"
        /\ pc = "decoding" => IsPrefix(out, Declared)
        /\ (pc = "decoding" /\ op[1] = "Decoder::read" /\ op[2] > 0
                /\ ret.val = 0) => out = Declared

\* the round trip of N >= 1 bytes has been made to its end
C1_RoundTripNonEmpty_Witness ==
    /\ scenario = "roundtrip"
    /\ window_arg = 15
    /\ size_arg = CHUNK_SIZE + 1
    /\ op[1] = "Decoder::read"
    /\ op[2] > 0
    /\ ret.err = "none"
    /\ ret.val = 0
    /\ out = Declared

\* C2: an Encoder with uncompressed_size L, 1 <= L <= 32768, that has been
\* given its L bytes has sent to the sink exactly: the 16-bit word
\* 16 + L + (L mod 2); two words holding the bits 0, 011, the 24-bit L, 0
\* and three zero bits; three 32-bit words 1; the L bytes; and a zero byte
\* iff L is odd.  No write fails on the way.  For "abc" these are the 22
\* bytes 14 00 00 30 30 00 01 00 00 00 01 00 00 00 01 00 00 00 61 62 63 00.
C2_SingleChunkBytes ==
    (scenario = "roundtrip" /\ op[1] = "Encoder::write"
        /\ 1 <= size_arg /\ size_arg <= 32768) =>
        /\ ret.err = "none"
        /\ fed = size_arg =>
            /\ encoder.writer.writer =
                   LE16(16 + size_arg + (size_arg % 2))
                       \o LE16(3 * 4096 + size_arg \div 4096)
                       \o LE16((size_arg % 4096) * 16)
                       \o LE32(1) \o LE32(1) \o LE32(1)
                       \o Declared
                       \o (IF size_arg % 2 = 1 THEN <<0>> ELSE <<>>)
            /\ Declared = <<97, 98, 99>> =>
                   encoder.writer.writer = TinyStream

\* "abc" has been written to an Encoder of uncompressed_size 3
C2_Witness ==
    /\ scenario = "roundtrip"
    /\ op[1] = "Encoder::write"
    /\ size_arg = 3
    /\ fed = 3
    /\ Declared = <<97, 98, 99>>
    /\ encoder.writer.writer = TinyStream

\* C3: over a stream of one chunk holding one Uncompressed block of L bytes
\* (flag bit 0), Decoder::new with uncompressed_size L succeeds and the first
\* read, into a buffer of at least L bytes, returns L and the block's bytes;
\* for the 22-byte stream of "abc" it returns 3 and abc.
C3_OneBlockDecode ==
    \A s \in OneBlockStreams :
        (scenario = "stream" /\ source = s.bytes /\ size_arg = s.size
            /\ input = s.data /\ ValidWindow(window_arg)) =>
            /\ op[1] = "Decoder::new" => ret.err = "none"
            /\ (op[1] = "Decoder::read" /\ calls = 1 /\ op[2] >= s.size) =>
                /\ ret.err = "none"
                /\ ret.val = s.size
                /\ SubSeq(ret.buf, 1, s.size) = s.data
                /\ (s.bytes = TinyStream /\ s.size = 3) =>
                       ret.val = 3 /\ ret.buf = <<97, 98, 99>>

\* the stream of "abc" has been read into a buffer of 10 bytes
C3_Witness ==
    /\ scenario = "stream"
    /\ source = TinyStream
    /\ size_arg = 3
    /\ op = <<"Decoder::read", 10>>
    /\ calls = 1
    /\ ret.err = "none"
    /\ ret.val = 3
    /\ ret.buf = <<97, 98, 99>>

\* C4: Encoder::new and Decoder::new with a window below 15 or above 21
\* return the invalid-window error naming that window, with nothing sent to
\* the sink and nothing taken from the source; with a window in 15..21
\* Encoder::new succeeds, and so does Decoder::new over a stream that
\* begins with a chunk size and a block header with flag bit 0.
C4_WindowRange ==
    /\ op[1] = "Encoder::new" =>
           IF ValidWindow(op[2])
           THEN ret.err = "none" /\ pc = "encoding"
           ELSE /\ ret.err = "InvalidInput"
                /\ ret.val = op[2]
                /\ encoder.writer.writer = <<>>
    /\ op[1] = "Decoder::new" =>
           IF ValidWindow(op[2])
           THEN (\E s \in OneBlockStreams : source = s.bytes) =>
                    ret.err = "none" /\ pc = "decoding"
           ELSE /\ ret.err = "InvalidInput"
                /\ ret.val = op[2]
                /\ decoder.reader.reader = source
                /\ decoder.reader.bits_in_buffer = 0

\* Decoder::new with window 22 over the stream of "abc"
C4_Witness ==
    /\ op = <<"Decoder::new", 22, 3>>
    /\ source = TinyStream
    /\ ret.err = "InvalidInput"
    /\ ret.val = 22
    /\ decoder.reader.reader = TinyStream

\* C5: to_bits gives Verbatim, AlignedOffset and Uncompressed the codes 1, 2
\* and 3; from_bits of the code to_bits gave is the block type again; and
\* from_bits of 0 or of a code >= 4 is the invalid-block-type error.
C5_BlockTypeCodes ==
    /\ op[1] = "BlockType::to_bits" =>
           /\ op[2] = Verbatim => ret.val = 1
           /\ op[2] = AlignedOffset => ret.val = 2
           /\ op[2] = Uncompressed => ret.val = 3
    /\ op[1] = "BlockType::from_bits" =>
           /\ bt.btype # "none" => ret.err = "none" /\ ret.val = bt.btype
           /\ (op[2] = 0 \/ op[2] >= 4) => ret.err = "InvalidData"
           /\ (1 <= op[2] /\ op[2] <= 3) => ret.err = "none"

\* from_bits has been applied to to_bits(Uncompressed)
C5_Witness ==
    /\ op[1] = "BlockType::from_bits"
    /\ bt.btype = Uncompressed
    /\ ret.err = "none"
    /\ ret.val = Uncompressed

\* C6: bit round trip.  When (width, value) pairs with 1 <= width <= 32 have
\* been written with write_bits and flushed with align_to_16, no write has
\* failed, and every read_bits of the same widths, in order, over the bytes
\* produced succeeds and returns the value written.
C6_BitRoundTrip ==
    /\ (pc \in {"bw", "failed"} /\ rlog = <<>> /\ Len(wlog) >= 1
            /\ \A i \in 1..Len(wlog) : wlog[i][1] \in {"bits", "align"}) =>
           ret.err = "none"
    /\ (BitsThenAlign /\ op[1] = "BitReader::read_bits") =>
           /\ ret.err = "none"
           /\ ret.val = wlog[Len(rlog)][3]

\* C6 for widths up to 16: the same round trip when no pair is wider than
\* one 16-bit word
C6_BitRoundTripNarrow ==
    (BitsThenAlign /\ op[1] = "BitReader::read_bits"
        /\ \A i \in 1..(Len(wlog) - 1) : wlog[i][2] <= 16) =>
        /\ ret.err = "none"
        /\ ret.val = wlog[Len(rlog)][3]

\* C7: a second align_to_16 in a row, the first having succeeded, succeeds
\* and changes nothing: the BitReader keeps its source, bit_buffer,
\* bits_in_buffer and bits_mod_16; the BitWriter's sink is as it was and it
\* keeps bits_in_buffer = 0 and extra_byte = false.
C7_AlignTwice ==
    [][/\ (op[1] = "BitReader::align_to_16" /\ ret.err = "none"
              /\ op'[1] = "BitReader::align_to_16") =>
              /\ ret'.err = "none"
              /\ bit_reader' = bit_reader
       /\ (op[1] = "BitWriter::align_to_16" /\ ret.err = "none"
              /\ op'[1] = "BitWriter::align_to_16") =>
              /\ ret'.err = "none"
              /\ bit_writer'.writer = bit_writer.writer
              /\ bit_writer'.bits_in_buffer = 0
              /\ bit_writer'.extra_byte = FALSE
              /\ bit_writer.bits_in_buffer = 0
              /\ bit_writer.extra_byte = FALSE]_vars

\* a BitReader that has read 3 bits has been aligned twice in a row
C7_Witness ==
    /\ pc = "br"
    /\ Len(rlog) = 3
    /\ rlog[1] = <<"bits", 3, "none", 5>>
    /\ rlog[2][1] = "align" /\ rlog[2][3] = "none"
    /\ rlog[3][1] = "align" /\ rlog[3][3] = "none"
    /\ bit_reader.bits_in_buffer = 0
    /\ Len(bit_reader.reader) = 5

\* what an Encoder sends for the chunks of data, the first one with the
\* flag bit in front of the block header
RECURSIVE ChunkStream(_, _)
ChunkStream(data, first) ==
    IF Len(data) = 0 THEN <<>>
    ELSE LET l == Min(Len(data), 32768)
         IN LE16(16 + l + (l % 2))
                \o (IF first THEN FirstBlockHeader(3, l)
                    ELSE NextBlockHeader(3, l))
                \o BlockBody(<<1, 1, 1>>, SubSeq(data, 1, l))
                \o ChunkStream(Drop(data, l), FALSE)

\* C8: when the N >= 1 declared bytes have all been written, emit_chunk has
\* run ceil(N / 32768) times: for every chunk but the last with 32768
\* bytes, for the last with the rest; the sink holds the chunks of the
\* input in input order.  N = 32769 gives chunks of 32768 and 1 bytes.
C8_Chunks ==
    (scenario = "roundtrip" /\ encoder.err = "none" /\ size_arg >= 1
        /\ fed = size_arg) =>
        LET count == (size_arg + 32767) \div 32768
        IN /\ Len(encoder.chunks) = count
           /\ \A i \in 1..count :
                  encoder.chunks[i] =
                      IF i < count THEN 32768
                      ELSE size_arg - 32768 * (count - 1)
           /\ encoder.writer.writer = ChunkStream(Declared, TRUE)
           /\ size_arg = 32769 => encoder.chunks = <<32768, 1>>

\* 32769 bytes have been written to an Encoder of uncompressed_size 32769
C8_Witness ==
    /\ scenario = "roundtrip"
    /\ op[1] = "Encoder::write"
    /\ size_arg = 32769
    /\ fed = 32769
    /\ encoder.chunks = <<32768, 1>>

\* C9: a successful Decoder::read has filled min(buffer length,
\* total_remaining) bytes of the buffer.  Over the first k bytes of the
\* stream of "abc" (18 bytes of headers, 3 of body, 1 of padding) with
\* uncompressed_size 3: Decoder::new fails with UnexpectedEof unless the
\* chunk size and the first word of the block header are there; a read
\* that needs a header or body byte beyond the k bytes fails with
\* UnexpectedEof; any other read succeeds.
C9_ShortSource ==
    /\ (op[1] = "Decoder::read" /\ ret.err = "none") =>
           /\ Len(ret.buf) = ret.val
           /\ ret.val = Min(op[2], size_arg - (Len(out) - ret.val))
    /\ \A k \in 0..(Len(TinyStream) - 1) :
           (scenario = "stream" /\ source = SubSeq(TinyStream, 1, k)
               /\ size_arg = 3 /\ ValidWindow(window_arg)) =>
               /\ IsPrefix(out, <<97, 98, 99>>)
               /\ Len(out) <= Max(0, k - 18)
               /\ op[1] = "Decoder::new" =>
                      ret.err = IF k < 4 THEN "UnexpectedEof" ELSE "none"
               /\ op[1] = "Decoder::read" =>
                      LET before ==
                              IF ret.err = "none" THEN Len(out) - ret.val
                              ELSE Len(out)
                          wanted == Min(op[2], 3 - before)
                      IN ret.err =
                             IF wanted = 0 \/ k >= 18 + before + wanted
                             THEN "none" ELSE "UnexpectedEof"

\* the stream of "abc" without its last body byte has been read
C9_Witness ==
    /\ scenario = "stream"
    /\ source = SubSeq(TinyStream, 1, 20)
    /\ op = <<"Decoder::read", 10>>
    /\ ret.err = "UnexpectedEof"
    /\ out = <<>>

\* C10: a Decoder::read made when total_uncompressed_bytes_remaining is 0
\* returns Ok(0) and leaves the Decoder, with what is left of its source,
\* as it was.
C10_ReadAtEnd ==
    [][(pc = "decoding"
           /\ decoder.total_uncompressed_bytes_remaining = 0
           /\ op'[1] = "Decoder::read") =>
           /\ ret' = [err |-> "none", val |-> 0, buf |-> <<>>]
           /\ decoder' = decoder
           /\ out' = out]_vars

\* a second read at the end of the stream of "abc": the padding byte is
\* still in the source
C10_Witness ==
    /\ scenario = "stream"
    /\ source = TinyStream
    /\ op = <<"Decoder::read", 10>>
    /\ calls >= 2
    /\ Len(out) = 3
    /\ ret = [err |-> "none", val |-> 0, buf |-> <<>>]
    /\ decoder.total_uncompressed_bytes_remaining = 0
    /\ decoder.reader.reader = <<0>>

\* C11 as stated: every Encoder::write that returns without an error
\* returns the length of the buffer it was given.
C11_WriteReturnsLength ==
    (op[1] = "Encoder::write" /\ ret.err = "none") => ret.val = op[2]

\* C11: an Encoder::write that returns without an error returns the
\* smaller of the length of its buffer and the bytes that were left of
\* uncompressed_size when it was called, and takes that many bytes off
\* what is left; the bytes of the buffer beyond the declared size are not
\* accepted.
C11_WriteReturnsAccepted ==
    [][(pc = "encoding" /\ op'[1] = "Encoder::write" /\ calls' = calls + 1
           /\ ret'.err = "none") =>
           /\ ret'.val =
                  Min(op'[2], encoder.total_uncompressed_bytes_remaining)
           /\ encoder'.total_uncompressed_bytes_remaining =
                  encoder.total_uncompressed_bytes_remaining - ret'.val
           /\ fed' = fed + ret'.val]_vars

\* a write of 3 bytes to an Encoder of uncompressed_size 2 has returned 2
C11_Witness ==
    /\ scenario = "roundtrip"
    /\ op = <<"Encoder::write", 3>>
    /\ ret.err = "none"
    /\ ret.val = 2
    /\ size_arg = 2
    /\ fed = 2
    /\ encoder.total_uncompressed_bytes_remaining = 0

\* C12: over the test stream with the kind code k in its block header, for
\* every k but 3 (Uncompressed), a Decoder::read into a non-empty buffer
\* returns an error to its caller: for k = 1 (Verbatim) and k = 2
\* (AlignedOffset) as for the invalid codes 0 and 4..7; it never panics.
C12_UnsupportedKindError ==
    \A k \in (0..7) \ {3} :
        (scenario = "stream" /\ source = KindStream(k)
            /\ op[1] = "Decoder::read" /\ op[2] > 0) =>
            ret.err \notin {"none", "panic"}

\* what the code does for the codes that are no block type: InvalidData
C12_InvalidKindError ==
    \A k \in {0, 4, 5, 6, 7} :
        (scenario = "stream" /\ source = KindStream(k)
            /\ op[1] = "Decoder::read" /\ op[2] > 0) =>
            ret.err = "InvalidData"

\* C13: a Decoder::read that succeeds returns min(buffer length,
\* total_uncompressed_bytes_remaining at entry), has put that many bytes in
\* the buffer and has taken that many off total_uncompressed_bytes_remaining;
\* with a non-empty buffer it returns 0 only if nothing was left at entry.
C13_ReadCount ==
    [][(pc = "decoding" /\ op'[1] = "Decoder::read" /\ calls' = calls + 1
           /\ ret'.err = "none") =>
           /\ ret'.val =
                  Min(op'[2], decoder.total_uncompressed_bytes_remaining)
           /\ Len(ret'.buf) = ret'.val
           /\ out' = out \o ret'.buf
           /\ decoder'.total_uncompressed_bytes_remaining =
                  decoder.total_uncompressed_bytes_remaining - ret'.val
           /\ (op'[2] > 0 /\ ret'.val = 0) =>
                  decoder.total_uncompressed_bytes_remaining = 0]_vars

\* one read of 10 bytes over a stream of two blocks, of 2 bytes and of 1
\* byte, has returned the 3 bytes
C13_Witness ==
    /\ scenario = "stream"
    /\ source = TwoBlocks(<<97, 98>>, <<99>>)
    /\ op = <<"Decoder::read", 10>>
    /\ calls = 1
    /\ ret = [err |-> "none", val |-> 3, buf |-> <<97, 98, 99>>]
    /\ decoder.total_uncompressed_bytes_remaining = 0

\* the bits of a source in the order read_bits gives them: the 16-bit
\* little-endian words, the most significant bit of each first
BitsOf(bytes) ==
    [i \in 1..(8 * Len(bytes)) |->
        LET word == (i - 1) \div 16
            b == (i - 1) % 16
        IN IF b < 8 THEN BitOf(bytes[2 * word + 2], 7 - b)
           ELSE BitOf(bytes[2 * word + 1], 15 - b)]

\* the value of the n bits of a source that follow its first skip bits
RECURSIVE BitsValue(_, _, _)
BitsValue(bits, skip, n) ==
    IF n = 0 THEN 0
    ELSE 2 * BitsValue(bits, skip, n - 1) + bits[skip + n]

\* C14: Decoder::new over a stream whose flag bit is 1, here the test
\* stream with a 32-bit file size f in front of its block header, succeeds
\* and stores f, the next 32 bits of the bit stream, as header_filesize; it
\* leaves the reader at the block header: 33 bits of the three words pulled
\* are used and 15 are in the buffer.  Over a stream whose flag bit is 0,
\* Decoder::new uses 1 bit of the one word pulled.
C14_FilesizeFlag ==
    (scenario = "stream" /\ op[1] = "Decoder::new" /\ ValidWindow(window_arg)
        /\ Len(source) >= 8) =>
        IF BitsOf(source)[17] = 1
        THEN /\ ret.err = "none"
             /\ decoder.header_filesize = BitsValue(BitsOf(source), 17, 32)
             /\ decoder.reader.bits_in_buffer = 15
             /\ decoder.reader.bits_mod_16 = 1
             /\ decoder.reader.reader = Drop(source, 8)
        ELSE /\ ret.err = "none"
             /\ decoder.header_filesize = 0
             /\ decoder.reader.bits_in_buffer = 15
             /\ decoder.reader.bits_mod_16 = 1
             /\ decoder.reader.reader = Drop(source, 4)

\* C14 for the flag bit 0 alone: no file size is read
C14_NoFilesize ==
    (scenario = "stream" /\ op[1] = "Decoder::new" /\ ValidWindow(window_arg)
        /\ Len(source) >= 4 /\ BitsOf(source)[17] = 0) =>
        /\ ret.err = "none"
        /\ decoder.header_filesize = 0
        /\ decoder.reader.bits_in_buffer = 15
        /\ decoder.reader.bits_mod_16 = 1
        /\ decoder.reader.reader = Drop(source, 4)

\* C15: for every n in 1..32, a read_bits(n) or peek_bits(n) call never
\* fails the assertion bits_in_buffer >= num_bits that follows
\* ensure_buffer_has_at_least(n): the one word pulled is enough; and
\* bits_in_buffer never wraps below 0, so the buffer holds at most 64 bits.
C15_SingleTopUp ==
    /\ (op[1] \in {"BitReader::read_bits", "BitReader::peek_bits"}
           /\ op[2] \in 1..32) => ret.err # "panic"
    /\ bit_reader.bits_in_buffer <= 64

\* C15 for n in 1..16: while no call has asked for more than 16 bits, the
\* assertion holds and the buffer holds less than 32 bits
C15_SingleTopUpNarrow ==
    (\A i \in 1..Len(rlog) :
         rlog[i][1] \in {"bits", "peek"} => rlog[i][2] <= 16) =>
        /\ (op[1] \in {"BitReader::read_bits", "BitReader::peek_bits"}) =>
               ret.err # "panic"
        /\ bit_reader.bits_in_buffer < 32

\* byte i of the whole bytes resident in a bit buffer, in stream order
ResidentByte(r, i) == U64Top(U64Shl(r.bit_buffer, 8 * (i - 1)), 8)

\* C16: a BitReader::read into a buffer of k bytes that succeeds, made when
\* byte alignment leaves m whole bytes in the bit buffer, puts the first
\* min(m, k) of them at the start of the buffer, in stream order, then
\* bytes of the source in what is left of the buffer; the count returned is
\* the resident bytes plus the source bytes, and the source has lost only
\* the bytes given.
C16_ResidentBytesFirst ==
    [][(pc = "br" /\ op'[1] = "BitReader::read" /\ calls' = calls + 1
           /\ ret'.err = "none" /\ bit_reader.bits_in_buffer <= 64) =>
           LET r == align_to_8(bit_reader)
               m == Min(r.bits_in_buffer \div 8, op'[2])
               n == Min(op'[2] - m, Len(r.reader))
           IN /\ ret'.val = m + n
              /\ Len(ret'.buf) >= m + n
              /\ \A i \in 1..m : ret'.buf[i] = ResidentByte(r, i)
              /\ \A i \in 1..n : ret'.buf[m + i] = r.reader[i]
              /\ bit_reader'.reader = Drop(r.reader, n)
              /\ bit_reader'.bits_in_buffer = r.bits_in_buffer - 8 * m]_vars

\* C16 for an empty bit buffer: the bytes come from the source alone
C16_ReadFromSource ==
    [][(pc = "br" /\ op'[1] = "BitReader::read" /\ calls' = calls + 1
           /\ ret'.err = "none" /\ bit_reader.bits_in_buffer = 0) =>
           LET n == Min(op'[2], Len(bit_reader.reader))
           IN /\ ret'.val = n
              /\ ret'.buf = SubSeq(bit_reader.reader, 1, n)
              /\ bit_reader'.reader = Drop(bit_reader.reader, n)]_vars

\* C17: when a BitReader::read has taken an odd number of bytes from the
\* source and left the bit buffer empty, so that the reader is 8 bits past
\* a word boundary, and the source still holds the padding byte and more,
\* the next align_to_16 succeeds, takes exactly the padding byte from the
\* source and leaves the bit buffer empty: what follows is read from the
\* byte after the padding byte.
C17_AlignAfterOddRead ==
    [][(pc = "br" /\ op[1] = "BitReader::read" /\ ret.err = "none"
           /\ ret.val % 2 = 1
           /\ bit_reader.bits_in_buffer = 0 /\ bit_reader.bits_mod_16 = 8
           /\ Len(bit_reader.reader) >= 2
           /\ op'[1] = "BitReader::align_to_16" /\ calls' = calls + 1) =>
           /\ ret'.err = "none"
           /\ bit_reader'.reader = Drop(bit_reader.reader, 1)
           /\ bit_reader'.bits_in_buffer = 0
           /\ bit_reader'.bits_mod_16 = 0]_vars

\* C17 in a Decoder: over a stream of two Uncompressed blocks, the first of
\* odd length, with the right uncompressed_size, the reads succeed and give
\* the bytes of both blocks.
C17_OddBlockThenBlock ==
    \A s \in TwoBlockStreams :
        (scenario = "stream" /\ source = s.bytes /\ size_arg = s.size
            /\ op[1] = "Decoder::read") =>
            /\ ret.err = "none"
            /\ IsPrefix(out, s.data)

\* the same over the streams whose first block has an even length (the
\* fifth byte of the stream holds the low 4 bits of the length, times 16)
C17_EvenBlockThenBlock ==
    \A s \in TwoBlockStreams :
        (scenario = "stream" /\ source = s.bytes /\ size_arg = s.size
            /\ op[1] = "Decoder::read"
            /\ s.bytes[5] % 32 = 0) =>
            /\ ret.err = "none"
            /\ IsPrefix(out, s.data)

\* the bytes of the raw writes at the end of a BitWriter's calls, since its
\* last write_bits or align_to_16
RECURSIVE RawTail(_)
RawTail(log) ==
    IF Len(log) = 0 \/ log[Len(log)][1] # "raw" THEN 0
    ELSE Len(log[Len(log)][2]) + RawTail(SubSeq(log, 1, Len(log) - 1))

\* a write_bits or align_to_16 call that succeeds, made on a BitWriter
\* whose bit buffer is empty
BitsAfterRaw ==
    /\ pc = "bw"
    /\ calls' = calls + 1
    /\ op'[1] \in {"BitWriter::write_bits", "BitWriter::align_to_16"}
    /\ ret'.err = "none"
    /\ bit_writer.bits_in_buffer = 0

\* the sink after the call: what it held, pad, then whole 16-bit words
SinkGrows(pad) ==
    /\ IsPrefix(bit_writer.writer \o pad, bit_writer'.writer)
    /\ (Len(bit_writer'.writer) - Len(bit_writer.writer) - Len(pad)) % 2 = 0
    /\ op'[1] = "BitWriter::align_to_16" =>
           bit_writer'.writer = bit_writer.writer \o pad
    /\ bit_writer'.extra_byte = FALSE

\* C18 as stated: after a raw write of an odd number of bytes the next
\* write_bits or align_to_16 sends exactly one zero byte to the sink before
\* any word and clears extra_byte; after a raw write of an even number of
\* bytes it sends no padding byte.
C18_PadAfterOddWrite ==
    [][(BitsAfterRaw /\ op[1] = "BitWriter::write") =>
           SinkGrows(IF Len(op[2]) % 2 = 1 THEN <<0>> ELSE <<>>)]_vars

\* C18: when the raw writes made since the last write_bits or align_to_16
\* sent an odd number of bytes in all (extra_byte is set), the next
\* write_bits or align_to_16 sends exactly one zero byte to the sink before
\* any word and clears extra_byte; when they sent an even number in all,
\* two odd writes in a row among them, it sends no padding byte.
C18_PadAfterOddTotal ==
    [][(BitsAfterRaw /\ op[1] = "BitWriter::write") =>
           /\ bit_writer.extra_byte = (RawTail(wlog) % 2 = 1)
           /\ SinkGrows(IF RawTail(wlog) % 2 = 1 THEN <<0>> ELSE <<>>)]_vars

\* write_bits(3, 5) after a raw write of 1 byte, itself after a raw write
\* of 2 bytes: the padding byte, then nothing yet of the 3 bits
C18_Witness ==
    /\ pc = "bw"
    /\ wlog = <<<<"raw", <<8, 9>>>>, <<"raw", <<7>>>>, <<"bits", 3, 5>>>>
    /\ ret.err = "none"
    /\ bit_writer.writer = <<8, 9, 7, 0>>
    /\ bit_writer.extra_byte = FALSE
    /\ bit_writer.bits_in_buffer = 3

\* the sink holds, for each of the chunk lengths in lens, a 16-bit size of
\* 16 + length + (length mod 2), an even value, and then exactly that many
\* bytes, and nothing else
RECURSIVE SizedChunks(_, _)
SizedChunks(bytes, lens) ==
    IF Len(lens) = 0 THEN Len(bytes) = 0
    ELSE /\ Len(bytes) >= 2
         /\ LET size == bytes[1] + 256 * bytes[2]
                l == lens[1]
            IN /\ size = 16 + l + (l % 2)
               /\ size % 2 = 0
               /\ Len(bytes) >= 2 + size
               /\ SizedChunks(Drop(bytes, 2 + size), Tail(lens))

\* C19: whatever has been written to an Encoder, its sink is the chunks it
\* has emitted one after the other, each a 16-bit size followed by exactly
\* 16 + chunk_len + (chunk_len mod 2) bytes, the size being that number
\* (below 65536, and even), for the first chunk, which holds the flag bit,
\* as for the others; the sink ends on a word boundary.
C19_ChunkSizeHeader ==
    (scenario = "roundtrip" /\ encoder.err = "none") =>
        /\ SizedChunks(encoder.writer.writer, encoder.chunks)
        /\ \A i \in 1..Len(encoder.chunks) :
               /\ 1 <= encoder.chunks[i] /\ encoder.chunks[i] <= CHUNK_SIZE
               /\ 16 + encoder.chunks[i] + (encoder.chunks[i] % 2) < 65536
        /\ Len(encoder.writer.writer) % 2 = 0
        /\ encoder.writer.bits_in_buffer = 0
        /\ ~encoder.writer.extra_byte

\* an Encoder has emitted a first chunk of 32768 bytes and a second of 1
\* byte: sizes 32784 and 18
C19_Witness ==
    /\ scenario = "roundtrip"
    /\ encoder.err = "none"
    /\ encoder.chunks = <<32768, 1>>
    /\ Len(encoder.writer.writer) = 2 + 32784 + 2 + 18
    /\ encoder.writer.writer[1] + 256 * encoder.writer.writer[2] = 32784
    /\ encoder.writer.writer[32787] + 256 * encoder.writer.writer[32788] = 18

\* the 16-bit word of a sink that follows the 16-bit size at offset at
WordAfterSize(bytes, at) == bytes[at + 3] + 256 * bytes[at + 4]

\* the offset in the sink of chunk i of the chunk lengths in lens
RECURSIVE ChunkOffset(_, _)
ChunkOffset(lens, i) ==
    IF i = 1 THEN 0
    ELSE ChunkOffset(lens, i - 1)
             + 2 + 16 + lens[i - 1] + (lens[i - 1] % 2)

\* the flag bit in the sink: the first chunk has the bit 0 and then the
\* kind code 3 right after its size, every later chunk has the kind code 3
\* right after its size
FlagBitInFirstChunk ==
    \A i \in 1..Len(encoder.chunks) :
        LET word == WordAfterSize(encoder.writer.writer,
                                  ChunkOffset(encoder.chunks, i))
        IN IF i = 1 THEN word \div 4096 = to_bits(Uncompressed)
           ELSE word \div 8192 = to_bits(Uncompressed)

\* C20: over the write calls on an Encoder the flag bit 0 is written once,
\* in the first chunk emitted, between its 16-bit size and its kind code;
\* no later chunk holds it; wrote_header is false until the first chunk is
\* emitted, true from then on, and never goes back to false.
C20_FlagBitOnce ==
    [][(encoder.err = "none" /\ encoder'.err = "none") =>
           /\ encoder.wrote_header => encoder'.wrote_header
           /\ encoder'.wrote_header = (Len(encoder'.chunks) > 0)
           /\ (scenario' = "roundtrip") => FlagBitInFirstChunk']_vars

\* a second chunk has been emitted by an Encoder that had written the
\* flag bit with its first
C20_Witness ==
    /\ scenario = "roundtrip"
    /\ op[1] = "Encoder::write"
    /\ encoder.err = "none"
    /\ encoder.wrote_header
    /\ encoder.chunks = <<32768, 32768>>
    /\ WordAfterSize(encoder.writer.writer, 0) = 12288 + 8
    /\ WordAfterSize(encoder.writer.writer, 32786) = 24576 + 16

\* C21: right after a Decoder::new that succeeds the Decoder has
\* recent = (1, 1, 1), block_uncompressed_bytes_remaining = 0 and
\* chunk_uncompressed_bytes_remaining = min(uncompressed_size, 32768).
C21_InitialState ==
    (op[1] = "Decoder::new" /\ ret.err = "none") =>
        /\ decoder.recent = <<1, 1, 1>>
        /\ decoder.block_uncompressed_bytes_remaining = 0
        /\ decoder.chunk_uncompressed_bytes_remaining = Min(size_arg, 32768)

\* C21 without the recent offsets: the counters after Decoder::new
C21_InitialCounters ==
    (op[1] = "Decoder::new" /\ ret.err = "none") =>
        /\ decoder.recent = <<0, 0, 0>>
        /\ decoder.block_uncompressed_bytes_remaining = 0
        /\ decoder.chunk_uncompressed_bytes_remaining = Min(size_arg, 32768)
        /\ decoder.total_uncompressed_bytes_remaining = size_arg

\* the byte at position i of a window
WindowByte(window, i) == window.byte

\* C22: after reads that succeeded, the window of the Decoder holds the
\* last min(bytes produced, window size) bytes produced: with the write
\* position p at the number of bytes produced modulo the window size, the
\* j-th last byte produced is at position p - j modulo the window size.
C22_WindowHoldsOutput ==
    (pc = "decoding" /\ op[1] = "Decoder::read" /\ ret.err = "none") =>
        LET size == decoder.window.len
            p == Len(out) % size
        IN \A j \in 1..Min(Len(out), size) :
               WindowByte(decoder.window, (p + size - j) % size)
                   = out[Len(out) + 1 - j]

\* what the code does: the window is what Decoder::new made, window_size
\* bytes of 0, whatever has been read
C22_WindowUntouched ==
    (scenario \in {"stream", "roundtrip"} /\ decoder.err # "absent"
        /\ ValidWindow(window_arg)) =>
        decoder.window = NewWindow(Pow2(window_arg))

\* a peek_bits call that succeeds
PeekStep ==
    /\ pc = "br"
    /\ calls' = calls + 1
    /\ op'[1] = "BitReader::peek_bits"
    /\ ret'.err = "none"

\* a read_bits(m) call that follows a peek_bits(n) that succeeded, m >= n
ReadAfterPeek ==
    /\ pc = "br"
    /\ op[1] = "BitReader::peek_bits"
    /\ ret.err = "none"
    /\ calls' = calls + 1
    /\ op'[1] = "BitReader::read_bits"
    /\ op'[2] >= op[2]

\* C23: a peek_bits(n) that succeeds returns what read_bits(n) returns in
\* the same state and consumes nothing: bits_mod_16 is as it was, the
\* buffer has lost no bit, and a read_bits(m) that follows it, m >= n,
\* returns, unless the source ends, a value whose top n bits are the value
\* peeked.
C23_PeekThenRead ==
    [][/\ PeekStep =>
              /\ read_bits(bit_reader, op'[2]).err = "none"
              /\ ret'.val = read_bits(bit_reader, op'[2]).val
              /\ bit_reader'.bits_mod_16 = bit_reader.bits_mod_16
              /\ bit_reader'.bits_in_buffer >= bit_reader.bits_in_buffer
       /\ ReadAfterPeek =>
              /\ ret'.err # "panic"
              /\ ret'.err = "none" =>
                     ret'.val \div Pow2(op'[2] - op[2]) = ret.val]_vars

\* C23 for n in 1..16: the same for a peek of at most one word
C23_PeekThenReadNarrow ==
    [][/\ (PeekStep /\ op'[2] <= 16) =>
              /\ read_bits(bit_reader, op'[2]).err = "none"
              /\ ret'.val = read_bits(bit_reader, op'[2]).val
              /\ bit_reader'.bits_mod_16 = bit_reader.bits_mod_16
              /\ bit_reader'.bits_in_buffer >= bit_reader.bits_in_buffer
       /\ (ReadAfterPeek /\ op[2] <= 16) =>
              /\ ret'.err # "panic"
              /\ ret'.err = "none" =>
                     ret'.val \div Pow2(op'[2] - op[2]) = ret.val]_vars

\* the bits a BitReader call asks ensure_buffer_has_at_least for first, 0
\* when it asks for none
FirstAsk(r, call) ==
    IF call[1] \in {"BitReader::read_bits", "BitReader::peek_bits"}
    THEN call[2]
    ELSE IF call[1] = "BitReader::align_to_16"
    THEN (IF r.bits_mod_16 # 0 THEN 16 - r.bits_mod_16 ELSE 0)
    ELSE IF r.bits_mod_16 % 8 # 0 THEN 8 - (r.bits_mod_16 % 8) ELSE 0

\* C24: when a BitReader call tops the buffer up, the buffer holds at most
\* 48 bits before the word is pulled and so at most 64 after it; when
\* write_bits, align_to_16 or write returns on a BitWriter, the buffer
\* holds less than 16 bits: every complete word has gone to the sink, the
\* first 16 bits written first, low byte first.
C24_BufferBounds ==
    [][/\ (pc \in {"br", "replay"} /\ calls' = calls + 1
              /\ bit_reader.bits_in_buffer
                     < FirstAsk(bit_reader, op')) =>
              /\ bit_reader.bits_in_buffer <= 48
              /\ bit_reader.bits_in_buffer + 16 <= 64
              /\ ret'.err \in {"none", "panic"} =>
                     Len(bit_reader'.reader) <= Len(bit_reader.reader) - 2
       /\ (pc = "bw" /\ calls' = calls + 1 /\ ret'.err = "none") =>
              /\ bit_writer'.bits_in_buffer < 16
              /\ bit_writer.bits_in_buffer < 16
              /\ IsPrefix(bit_writer.writer, bit_writer'.writer)
              /\ (op'[1] = "BitWriter::write_bits" /\ ~bit_writer.extra_byte
                      /\ bit_writer.bits_in_buffer = 0 /\ op'[2] >= 16) =>
                     /\ Len(bit_writer'.writer) >= Len(bit_writer.writer) + 2
                     /\ bit_writer'.writer[Len(bit_writer.writer) + 1]
                            + 256 * bit_writer'.writer[
                                        Len(bit_writer.writer) + 2]
                            = op'[3] \div Pow2(op'[2] - 16)]_vars

\* write_bits(3, 5) and write_bits(16, 0xABCD) have left 3 bits in the
\* writer's buffer; the reader of the aligned bytes has pulled a second
\* word with 13 bits in its buffer
C24_Witness ==
    /\ pc = "replay"
    /\ wlog = <<<<"bits", 3, 5>>, <<"bits", 16, 43981>>, <<"align">>>>
    /\ Len(rlog) = 2
    /\ rlog[2] = <<"bits", 16, "none", 43981>>
    /\ bit_reader.bits_in_buffer = 13
    /\ Len(bit_writer.writer) = 4

\* C25: in every pass of the loop of Decoder::read, bytes_to_read =
\* min(block remaining, chunk remaining, space left in the buffer) is above
\* 0, whatever the stream and the buffer lengths of the reads: the
\* assertion bytes_to_read > 0 never fails, and without it no pass copies
\* 0 bytes.
C25_CopyPositive ==
    \A i \in 1..Len(decoder.copies) : decoder.copies[i] > 0

\* a read of 10 bytes over a stream whose first block holds no byte and
\* whose second block holds 1 has made one copy, of 1 byte
C25_Witness ==
    /\ scenario = "stream"
    /\ source = TwoBlocks(<<>>, <<97>>)
    /\ size_arg = 1
    /\ op = <<"Decoder::read", 10>>
    /\ ret = [err |-> "none", val |-> 1, buf |-> <<97>>]
    /\ decoder.copies = <<1>>

RECURSIVE SumSeq(_)
SumSeq(s) == IF Len(s) = 0 THEN 0 ELSE s[1] + SumSeq(Tail(s))

\* a Decoder::read call that succeeds
ReadStep ==
    /\ pc = "decoding"
    /\ calls' = calls + 1
    /\ op'[1] = "Decoder::read"
    /\ ret'.err = "none"

\* C26: in every state of a Decoder, also one left by a call that failed,
\* chunk_uncompressed_bytes_remaining <= min(total remaining, 32768) and
\* no counter is below 0; while no call has failed, what is left of the
\* total is the declared size less the bytes of all the copies; the total
\* never grows; a read that
\* succeeds and stays inside the block and the chunk it found takes the
\* bytes it returns off each of the three counters.
C26_Counters ==
    [][(decoder'.err # "absent") =>
           /\ decoder'.chunk_uncompressed_bytes_remaining
                  <= Min(decoder'.total_uncompressed_bytes_remaining, 32768)
           /\ decoder'.chunk_uncompressed_bytes_remaining >= 0
           /\ decoder'.block_uncompressed_bytes_remaining >= 0
           /\ decoder'.total_uncompressed_bytes_remaining >= 0
           /\ (decoder'.err = "none") =>
                  decoder'.total_uncompressed_bytes_remaining
                      + SumSeq(decoder'.copies) = size_arg'
           /\ (decoder.err # "absent") =>
                  decoder'.total_uncompressed_bytes_remaining
                      <= decoder.total_uncompressed_bytes_remaining
           /\ (ReadStep
                   /\ 0 < ret'.val
                   /\ ret'.val <= decoder.block_uncompressed_bytes_remaining
                   /\ ret'.val
                          <= decoder.chunk_uncompressed_bytes_remaining) =>
                  /\ decoder'.block_uncompressed_bytes_remaining =
                         decoder.block_uncompressed_bytes_remaining
                             - ret'.val
                  /\ decoder'.chunk_uncompressed_bytes_remaining =
                         decoder.chunk_uncompressed_bytes_remaining
                             - ret'.val
                  /\ decoder'.total_uncompressed_bytes_remaining =
                         decoder.total_uncompressed_bytes_remaining
                             - ret'.val]_vars

\* over a stream of 32769 bytes made by an Encoder, a read of 32768 bytes
\* has emptied the first chunk and left 1 byte of the total
C26_Witness ==
    /\ scenario = "roundtrip"
    /\ size_arg = 32769
    /\ op = <<"Decoder::read", 32768>>
    /\ ret.err = "none"
    /\ ret.val = 32768
    /\ decoder.copies = <<32768>>
    /\ decoder.chunk_uncompressed_bytes_remaining = 0
    /\ decoder.block_uncompressed_bytes_remaining = 0
    /\ decoder.total_uncompressed_bytes_remaining = 1

\* a call of Encoder::write
WriteStep == calls' = calls + 1 /\ op'[1] = "Encoder::write"

\* C27: after every successful Encoder::write the chunk buffer holds fewer
\* than 32768 bytes and is empty when total_uncompressed_bytes_remaining is
\* 0; the bytes accepted over all writes are the declared size less what
\* remains, so never more than the declared size; a write made when nothing
\* remains accepts 0 bytes, emits no chunk and leaves the sink as it was.
C27_WriteAccumulator ==
    [][(WriteStep /\ ret'.err = "none") =>
           /\ Len(encoder'.chunk_buffer) < CHUNK_SIZE
           /\ (encoder'.total_uncompressed_bytes_remaining = 0) =>
                  encoder'.chunk_buffer = <<>>
           /\ fed' = fed + ret'.val
           /\ fed' + encoder'.total_uncompressed_bytes_remaining = size_arg
           /\ fed' <= size_arg
           /\ (encoder.total_uncompressed_bytes_remaining = 0) =>
                  /\ ret'.val = 0
                  /\ encoder'.chunks = encoder.chunks
                  /\ encoder'.writer.writer = encoder.writer.writer]_vars

\* an Encoder of 2 declared bytes that has taken them is given 1 byte more
\* and takes none of it
C27_Witness ==
    /\ scenario = "roundtrip"
    /\ size_arg = 2
    /\ fed = 2
    /\ op = <<"Encoder::write", 1>>
    /\ ret.err = "none"
    /\ ret.val = 0
    /\ encoder.total_uncompressed_bytes_remaining = 0
    /\ encoder.chunk_buffer = <<>>
    /\ encoder.chunks = <<2>>

\* the number of accepted bytes that have left the chunk buffer: all of them
\* once the declared size is reached, the whole chunks before that
Emitted ==
    IF fed = size_arg THEN fed ELSE (fed \div CHUNK_SIZE) * CHUNK_SIZE

\* C28: what an Encoder has sent to the sink and what it holds are given by
\* the declared size and the bytes accepted so far, however the calls of
\* write divided them: the sink holds the chunks of the accepted bytes that
\* are complete (all of them at the declared size), the chunk buffer the
\* accepted bytes after them.  Two Encoders of one size that have accepted
\* the same bytes have therefore sent the same bytes.
C28_SinkOfAccepted ==
    (scenario = "roundtrip" /\ encoder.err = "none") =>
        /\ encoder.writer.writer =
               ChunkStream(SubSeq(input, 1, Emitted), TRUE)
        /\ encoder.chunk_buffer = SubSeq(input, Emitted + 1, fed)
        /\ encoder.total_uncompressed_bytes_remaining = size_arg - fed

\* an Encoder of 65536 declared bytes that was given 1 byte and then 32768
\* bytes has sent the chunk of the first 32768 and holds 1 byte
C28_Witness ==
    /\ scenario = "roundtrip"
    /\ size_arg = 65536
    /\ calls = 2
    /\ fed = 32769
    /\ op = <<"Encoder::write", 32768>>
    /\ ret.err = "none"
    /\ ret.val = 32768
    /\ encoder.chunks = <<32768>>
    /\ Len(encoder.chunk_buffer) = 1

\* C29: between the calls on a BitWriter over an empty sink, extra_byte is
\* set exactly when the sink has received an odd number of bytes, and it is
\* never set while the bit buffer holds bits; after every align_to_16 the
\* sink holds an even number of bytes and the bit buffer is empty.
C29_ExtraByteParity ==
    (pc = "bw") =>
        /\ bit_writer.extra_byte = (Len(bit_writer.writer) % 2 = 1)
        /\ ~(bit_writer.extra_byte /\ bit_writer.bits_in_buffer > 0)
        /\ bit_writer.bits_in_buffer < 16
        /\ (op[1] = "BitWriter::align_to_16") =>
               /\ Len(bit_writer.writer) % 2 = 0
               /\ bit_writer.bits_in_buffer = 0

\* 3 bits, then a raw write of 1 byte, then align_to_16: the word of the
\* bits, the byte and the padding byte
C29_Witness ==
    /\ pc = "bw"
    /\ wlog = <<<<"bits", 3, 5>>, <<"raw", <<7>>>>, <<"align">>>>
    /\ op = <<"BitWriter::align_to_16">>
    /\ ret.err = "none"
    /\ bit_writer.writer = <<0, 160, 7, 0>>
    /\ bit_writer.extra_byte = FALSE
    /\ bit_writer.bits_in_buffer = 0

====
